---- MODULE Spec2Model ----
(***************************************************************************)
(* Four-core MESI L1 cache simulator (shaurya30305/cache).                 *)
(*                                                                         *)
(* The model follows Simulator::processNextCycle from one trace read to    *)
(* the next: a step is one processor's executeNextInstruction (with the    *)
(* whole Cache::read or Cache::write it calls, the bus callback installed  *)
(* by Simulator::initializeComponents and the snoop of every peer cache),  *)
(* followed by the slots of the processors that read no record this cycle  *)
(* (blocked ones count an idle cycle) and, when the issue loop is over, by *)
(* the miss-resolution loop.                                               *)
(* Data payloads are opaque and are not modelled; the logging aggregates   *)
(* totalCacheHits/totalCacheMisses/totalMemoryAccesses are write-only in   *)
(* the program and are left out.                                           *)
(***************************************************************************)
EXTENDS Integers, Sequences, FiniteSets, TLC

\* ---------------------------------------------------------------- bounds
\* Total number of trace records (well-formed or not) over the four traces.
MaxInstr == 3
\* Last cycle the model explores (the cycle loop itself is unbounded); no
\* run of MaxInstr records lasts that long.
MaxCycle == 820
\* Tags 0..MaxTag are used by the trace addresses.
MaxTag == 1
\* The set observed on its own (SetSpec): its associativity, the tags
\* 0..MaxSetTag of the blocks accessed in it, and the number of steps.
SetWays == 3
MaxSetTag == 3
MaxSetOps == 5
\* The set whose LRU counter is LruBits wide (WrapSpec): the counter's
\* greatest value, and the number of steps.
LruBits == 2
MaxWrapOps == 6
\* The caches called directly (ApiSpec): number of calls of Cache::read and
\* Cache::write, and the last cycle set.
MaxApiCalls == 3
MaxApiCycle == 5

\* ------------------------------------------------------- program constants
NumCores == 4
MemLatency == 100
WritebackPenalty == 100
FlushHold == 100
UpgrHold == 2
WordBytes == 4
\* numeric_limits<unsigned int>::max(), scaled to the 31-bit integers of the
\* model checker: the set counter wraps and renumbers at this value.
UIntMax == 1073741823

\* --------------------------------------------------------- configuration
SetBits == 1
BlockBits == 3
Associativity == 1

Cores == 0 .. (NumCores - 1)
Ways == 1 .. Associativity

RECURSIVE Pow2(_)
Pow2(n) == IF n = 0 THEN 1 ELSE 2 * Pow2(n - 1)

numSets == Pow2(SetBits)
blockSize == Pow2(BlockBits)
SetIdxs == 0 .. (numSets - 1)

\* Address decoding (Address.cpp)
getTag(a) == a \div (numSets * blockSize)
getIndex(a) == (a \div blockSize) % numSets
getOffset(a) == a % blockSize
getBlockAddress(a) == a - (a % blockSize)

\* Addresses that occur in the traces: word 0 of the block of every tag
\* 0..MaxTag in set 0.
Addrs == { t * numSets * blockSize : t \in 0 .. MaxTag }

VARIABLES
  lines,            \* lines[c][s][w]: the CacheLine of way w in set s of cache c
  setLru,           \* setLru[c][s]: CacheSet::lruCounter
  pendingMiss, missResolveTime, dataSourceCache,
  stats,            \* stats[c]: the Cache statistics counters
  busBusyUntil, invalidationCount, busTrafficBytes, cacheToCache,
  memReadCount, memWriteCount,
  currentCycle,
  blocked, cyclesBlocked, instructionsExecuted,
  fileEnded,        \* TraceReader::fileEnded
  finishCycle,      \* TestSimulator::finishCycle
  endedAt,          \* endedAt[c]: cycle in which getNextInstruction marked the
                    \* trace of core c ended, 0 while it has not (history)
  recordsLeft,      \* trace records not yet read (over all four traces)
  phase, slot,      \* position inside processNextCycle: at a cycle boundary, or
                    \* at the issue slot of a processor about to read its trace
  last,             \* what the Cache::read / Cache::write of the step just taken did
  lastMiss,         \* lastMiss[c]: the latest miss of cache c (history)
  evictedShared,    \* <<c, block>>: cache c has replaced a SHARED line of block since
                    \* the block last went over the bus (history)
  downgradedAt,     \* downgradedAt[<<c, block>>]: cycle of the latest snoop that took the
                    \* line of cache c from M or E to S, 0 if none (history)
  issuedNow,        \* processors that read their trace in the current cycle (history)
  stallOwed,        \* stallOwed[c]: sum over the misses of c of missResolveTime
                    \* minus the cycle of the miss (history)
  skipped,          \* processors whose record of the current (now) and of the
                    \* previous (prev) cycle had an unknown opcode (history)
  wellFormed,       \* wellFormed[c]: records with opcode R or W and a hexadecimal
                    \* address read from the trace of core c (history)
  probe             \* one CacheSet of SetWays lines followed on its own (SetSpec):
                    \* its lines and lruCounter, and as history the number of
                    \* steps, the step of each line's latest use and the last step

vars == << lines, setLru, pendingMiss, missResolveTime, dataSourceCache, stats,
           busBusyUntil, invalidationCount, busTrafficBytes, cacheToCache,
           memReadCount, memWriteCount, currentCycle, blocked, cyclesBlocked,
           instructionsExecuted, fileEnded, recordsLeft, phase, slot, last,
           lastMiss, evictedShared, downgradedAt, issuedNow, wellFormed,
           finishCycle, endedAt, skipped, stallOwed, probe >>

\* The variables of the four-core simulation.
simVars == << lines, setLru, pendingMiss, missResolveTime, dataSourceCache, stats,
              busBusyUntil, invalidationCount, busTrafficBytes, cacheToCache,
              memReadCount, memWriteCount, currentCycle, blocked, cyclesBlocked,
              instructionsExecuted, fileEnded, recordsLeft, phase, slot, last,
              lastMiss, evictedShared, downgradedAt, issuedNow, wellFormed,
              finishCycle, endedAt, skipped, stallOwed >>

histVars == << lastMiss, evictedShared, downgradedAt, stallOwed >>

\* Block addresses of every tag 0..MaxTag in every set.
AllBlocks == { t * numSets * blockSize + i * blockSize :
                 t \in 0 .. MaxTag, i \in SetIdxs }

\* ------------------------------------------------------------- CacheLine
NewLine == [state |-> "I", dirty |-> FALSE, tag |-> 0, lru |-> 0]

isValid(l) == l.state # "I"
isDirty(l) == l.state = "M" \/ l.dirty

\* Mutant: a state change counts as a use of the line.
setMESIState_touchesLru(l, s) ==
  LET d1 == IF l.state = "M" /\ s # "M" THEN TRUE ELSE l.dirty
      d2 == IF s = "I" THEN FALSE ELSE d1
      d3 == IF s \in {"S", "E"} /\ l.state = "M" THEN FALSE ELSE d2
  IN  [l EXCEPT !.state = s, !.dirty = d3, !.lru = @ + 1]

\* Mutant: leaving MODIFIED for SHARED or EXCLUSIVE does not clear the dirty
\* bit that the first test has just set.
setMESIState_keepsDirty(l, s) ==
  LET d1 == IF l.state = "M" /\ s # "M" THEN TRUE ELSE l.dirty
      d2 == IF s = "I" THEN FALSE ELSE d1
  IN  [l EXCEPT !.state = s, !.dirty = d2]

setMESIState(l, s) ==
  LET d1 == IF l.state = "M" /\ s # "M" THEN TRUE ELSE l.dirty
      d2 == IF s = "I" THEN FALSE ELSE d1
      d3 == IF s \in {"S", "E"} /\ l.state = "M" THEN FALSE ELSE d2
  IN  [l EXCEPT !.state = s, !.dirty = d3]

loadData(l, t, s) == [l EXCEPT !.tag = t, !.state = s, !.dirty = (s = "M")]

writeWord(l, off) ==
  IF ~isValid(l) THEN l
  ELSE IF off + 3 >= blockSize THEN l
  ELSE [l EXCEPT !.state = "M", !.dirty = TRUE]

\* -------------------------------------------------------------- CacheSet
\* A set is a function ls from Ways to lines together with its lruCounter.
MinOf(S) == CHOOSE x \in S : \A y \in S : x <= y

\* The value of F at v, with v evaluated once (a local variable of the code).
Bind(v, F(_)) == CHOOSE y \in { F(x) : x \in {v} } : TRUE

\* Mutant: the search stops after the first line of the set.
findLine_firstLineOnly(ls, tag) ==
  IF isValid(ls[1]) /\ ls[1].tag = tag THEN 1 ELSE 0

\* Way of the first valid line with this tag, 0 for nullptr.
findLine(ls, tag) ==
  LET m == { w \in DOMAIN ls : isValid(ls[w]) /\ ls[w].tag = tag }
  IN  IF m = {} THEN 0 ELSE MinOf(m)

findInvalidLine(ls) ==
  LET m == { w \in DOMAIN ls : ~isValid(ls[w]) }
  IN  IF m = {} THEN 0 ELSE MinOf(m)

\* The scan of findVictim from line i on; v is the victim so far, replaced
\* only by a line whose counter is strictly lower.
RECURSIVE scanVictim(_, _, _)
scanVictim(ls, i, v) ==
  IF i \notin DOMAIN ls THEN v
  ELSE scanVictim(ls, i + 1, IF ls[i].lru < ls[v].lru THEN i ELSE v)

\* Mutant: the scan also moves to a line whose counter equals the lowest.
RECURSIVE scanVictim_lastOfTies(_, _, _)
scanVictim_lastOfTies(ls, i, v) ==
  IF i \notin DOMAIN ls THEN v
  ELSE scanVictim_lastOfTies(ls, i + 1, IF ls[i].lru <= ls[v].lru THEN i ELSE v)

findVictim_lastOfTies(ls) ==
  IF findInvalidLine(ls) # 0 THEN findInvalidLine(ls)
  ELSE scanVictim_lastOfTies(ls, 1, 1)

findVictim(ls) ==
  IF findInvalidLine(ls) # 0 THEN findInvalidLine(ls)
  ELSE scanVictim(ls, 1, 1)

\* Renumberings std::sort may produce: ascending by lru, equal counters in
\* any order (the sort is not stable).
Renumberings(ls) ==
  LET valid == { w \in DOMAIN ls : isValid(ls[w]) }
      k == Cardinality(valid)
  IN  { f \in [valid -> 0 .. (k - 1)] :
          /\ \A v, w \in valid : v # w => f[v] # f[w]
          /\ \A v, w \in valid : ls[v].lru < ls[w].lru => f[v] < f[w] }

\* Mutant: the counter given to the line depends on something outside the
\* state (one of two values).
updateLRU_eitherCounter(ls, ctr, w) ==
  { [ls |-> [ls EXCEPT ![w].lru = c1], ctr |-> c1] :
      c1 \in { (ctr + 1) % (UIntMax + 1), (ctr + 2) % (UIntMax + 1) } }

\* Mutant: touching a line also rewrites its MESI state (to SHARED).
updateLRU_rewritesState(ls, ctr, w) ==
  { [ls |-> [ls EXCEPT ![w].lru = (ctr + 1) % (UIntMax + 1), ![w].state = "S"],
     ctr |-> (ctr + 1) % (UIntMax + 1)] }

\* All results of CacheSet::updateLRU(&lines[w]) as [ls, ctr] records, for
\* a counter whose greatest value is max.
updateLRUOfWidth(ls, ctr, w, max) ==
  LET c1 == (ctr + 1) % (max + 1)
  IN  IF c1 = max
      THEN { [ls  |-> [v \in DOMAIN ls |->
                        IF v = w THEN [ls[v] EXCEPT !.lru = Cardinality(DOMAIN f)]
                        ELSE IF v \in DOMAIN f THEN [ls[v] EXCEPT !.lru = f[v]]
                        ELSE ls[v]],
              ctr |-> Cardinality(DOMAIN f)] : f \in Renumberings(ls) }
      ELSE { [ls |-> [ls EXCEPT ![w].lru = c1], ctr |-> c1] }

\* CacheSet::updateLRU with the counter of the program.
updateLRU(ls, ctr, w) == updateLRUOfWidth(ls, ctr, w, UIntMax)

\* MESI state in which cache c of ln holds the block of address a ("I" when
\* it has no valid line for it).
blockState(ln, c, a) ==
  LET w == findLine(ln[c][getIndex(a)], getTag(a))
  IN  IF w = 0 THEN "I" ELSE ln[c][getIndex(a)][w].state

\* ---------------------------------------------------------------- snoop
\* Reaction of a snooping cache that holds the line in state cur: the state
\* it moves to, whether it sets providedData, and its writes to main memory.
\* Mutant: a SHARED holder stays silent on BUS_RD.
snoopBusRd_sharedSilent(cur) ==
  IF cur = "M" THEN [next |-> "S", provided |-> TRUE, memWrites |-> 1]
  ELSE IF cur = "E" THEN [next |-> "S", provided |-> TRUE, memWrites |-> 0]
  ELSE [next |-> cur, provided |-> FALSE, memWrites |-> 0]

\* Mutant: a MODIFIED holder downgrades on BUS_RD without writing back.
snoopBusRd_noWriteback(cur) ==
  IF cur \in {"M", "E", "S"}
  THEN [next |-> "S", provided |-> TRUE, memWrites |-> 0]
  ELSE [next |-> cur, provided |-> FALSE, memWrites |-> 0]

snoopBusRd(cur) ==
  IF cur = "M" THEN [next |-> "S", provided |-> TRUE, memWrites |-> 1]
  ELSE IF cur = "E" THEN [next |-> "S", provided |-> TRUE, memWrites |-> 0]
  ELSE IF cur = "S" THEN [next |-> "S", provided |-> TRUE, memWrites |-> 0]
  ELSE [next |-> cur, provided |-> FALSE, memWrites |-> 0]

\* Mutant: every holder reports providedData on BUS_RDX.
snoopBusRdx_allProvide(cur) ==
  IF cur # "I"
  THEN [next |-> "I", provided |-> TRUE,
        memWrites |-> IF cur = "M" THEN 1 ELSE 0]
  ELSE [next |-> cur, provided |-> FALSE, memWrites |-> 0]

\* BUS_RDX and INVALIDATE have the same body.
snoopBusRdx(cur) ==
  IF cur # "I"
  THEN [next |-> "I", provided |-> (cur = "M"),
        memWrites |-> IF cur = "M" THEN 1 ELSE 0]
  ELSE [next |-> cur, provided |-> FALSE, memWrites |-> 0]

snoopBusUpgr(cur) ==
  IF cur = "S" THEN [next |-> "I", provided |-> FALSE, memWrites |-> 0]
  ELSE [next |-> cur, provided |-> FALSE, memWrites |-> 0]

\* Mutant: the snooping cache takes the first valid line of the set without
\* comparing tags.
handleBusTransaction_anyTag(t, ls, tag) ==
  LET m == { v \in DOMAIN ls : isValid(ls[v]) }
      w == IF m = {} THEN 0 ELSE MinOf(m)
      same == [ls |-> ls, provided |-> FALSE, memWrites |-> 0]
  IN  IF w = 0 \/ t = "FLUSH" THEN same
      ELSE LET cur == ls[w].state
               r == CASE t = "BUS_RD" -> snoopBusRd(cur)
                      [] t \in {"BUS_RDX", "INVALIDATE"} -> snoopBusRdx(cur)
                      [] OTHER -> snoopBusUpgr(cur)
           IN  [ls |-> IF r.next # cur
                       THEN [ls EXCEPT ![w] = setMESIState(ls[w], r.next)]
                       ELSE ls,
                provided |-> r.provided, memWrites |-> r.memWrites]

\* Cache::handleBusTransaction on the set ls of the snooping cache:
\* the new set, providedData as left by the call, and the memory writes.
\* setMESIState is called only where the code calls it.
handleBusTransaction(t, ls, tag) ==
  LET w == findLine(ls, tag)
      same == [ls |-> ls, provided |-> FALSE, memWrites |-> 0]
  IN  IF w = 0 \/ t = "FLUSH" THEN same
      ELSE LET cur == ls[w].state
               r == CASE t = "BUS_RD" -> snoopBusRd(cur)
                      [] t \in {"BUS_RDX", "INVALIDATE"} -> snoopBusRdx(cur)
                      [] OTHER -> snoopBusUpgr(cur)
           IN  [ls |-> IF r.next # cur
                       THEN [ls EXCEPT ![w] = setMESIState(ls[w], r.next)]
                       ELSE ls,
                provided |-> r.provided, memWrites |-> r.memWrites]

\* ------------------------------------------------------------------ bus
\* Number of peers with a valid line for the block (counted for BUS_RDX).
sharers(ln, a, req) ==
  Cardinality({ c \in Cores \ {req} :
                  \E w \in Ways : /\ isValid(ln[c][getIndex(a)][w])
                                  /\ ln[c][getIndex(a)][w].tag = getTag(a) })

\* Mutant: a block transfer holds the bus one cycle per word.
busLength_cyclePerWord(t) ==
  CASE t \in {"BUS_RD", "BUS_RDX"} -> blockSize \div WordBytes
    [] t \in {"BUS_UPGR", "INVALIDATE"} -> UpgrHold
    [] t = "FLUSH" -> FlushHold
    [] OTHER -> 0

busLength(t) ==
  CASE t \in {"BUS_RD", "BUS_RDX"} -> 2 * (blockSize \div WordBytes)
    [] t \in {"BUS_UPGR", "INVALIDATE"} -> UpgrHold
    [] t = "FLUSH" -> FlushHold
    [] OTHER -> 0

\* Mutant: BUS_RDX counts the block for the invalidation half and again for
\* the transfer.
busTraffic_rdxTwice(t) ==
  IF t = "BUS_RDX" THEN 2 * blockSize
  ELSE IF t \in {"BUS_RD", "FLUSH"} THEN blockSize ELSE 0

\* Mutant: an upgrade is accounted as a block transfer.
busTraffic_upgradeCarriesBlock(t) ==
  IF t \in {"BUS_RD", "BUS_RDX", "FLUSH", "BUS_UPGR"} THEN blockSize ELSE 0

busTraffic(t) == IF t \in {"BUS_RD", "BUS_RDX", "FLUSH"} THEN blockSize ELSE 0

\* Mutant: BUS_UPGR is not counted as an invalidation.
busInvalidations_upgrUncounted(t, ln, a, req) ==
  CASE t = "BUS_RDX" -> sharers(ln, a, req)
    [] t = "INVALIDATE" -> 1
    [] OTHER -> 0

busInvalidations(t, ln, a, req) ==
  CASE t = "BUS_RDX" -> sharers(ln, a, req)
    [] t \in {"BUS_UPGR", "INVALIDATE"} -> 1
    [] OTHER -> 0

MaxOf2(x, y) == IF x >= y THEN x ELSE y

\* The snoop loop from core `core` upward.  b carries the lines, the memory
\* write counter, cacheToCache and the caller's dataProvided / sourceCore.
RECURSIVE snoopLoop(_, _, _, _, _)
\* Mutant: the last peer that provides the block becomes the source.
RECURSIVE snoopLoop_lastSupplier(_, _, _, _, _)
snoopLoop_lastSupplier(core, t, a, req, b) ==
  IF core >= NumCores THEN b
  ELSE IF core = req THEN snoopLoop_lastSupplier(core + 1, t, a, req, b)
  ELSE Bind(handleBusTransaction(t, b.lines[core][getIndex(a)], getTag(a)),
         LAMBDA r :
           LET first == r.provided /\ ~b.dataProvided
           IN  Bind([b EXCEPT !.lines[core][getIndex(a)] = r.ls,
                              !.memWriteCount = @ + r.memWrites,
                              !.dataProvided = IF r.provided THEN TRUE ELSE @,
                              !.sourceCore = IF r.provided THEN core ELSE @,
                              !.cacheToCache = IF first THEN @ + 1 ELSE @],
                    LAMBDA b1 : snoopLoop_lastSupplier(core + 1, t, a, req, b1)))

snoopLoop(core, t, a, req, b) ==
  IF core >= NumCores THEN b
  ELSE IF core = req THEN snoopLoop(core + 1, t, a, req, b)
  ELSE Bind(handleBusTransaction(t, b.lines[core][getIndex(a)], getTag(a)),
         LAMBDA r :
           LET first == r.provided /\ ~b.dataProvided
           IN  Bind([b EXCEPT !.lines[core][getIndex(a)] = r.ls,
                              !.memWriteCount = @ + r.memWrites,
                              !.dataProvided = IF first THEN TRUE ELSE @,
                              !.sourceCore = IF first THEN core ELSE @,
                              !.cacheToCache = IF first THEN @ + 1 ELSE @],
                    LAMBDA b1 : snoopLoop(core + 1, t, a, req, b1)))

\* The coherence callback of Simulator::initializeComponents, reached
\* through Cache::issueCoherenceRequest: reserve the bus, account, snoop.
\* b is the record of everything the callback reads or writes.
coherenceCallback(t, a, req, b) ==
  LET startCycle == MaxOf2(b.cycle, b.busBusyUntil)
  IN  Bind([b EXCEPT !.invalidationCount = @ + busInvalidations(t, b.lines, a, req),
                     !.busTrafficBytes = @ + busTraffic(t),
                     !.busBusyUntil = startCycle + busLength(t),
                     !.dataProvided = FALSE,
                     !.sourceCore = -1,
                     !.log = Append(@, [t |-> t, addr |-> getBlockAddress(a),
                                        req |-> req, start |-> startCycle,
                                        pre |-> [b EXCEPT !.log = << >>]])],
           LAMBDA b1 : snoopLoop(0, t, a, req, b1))

\* ---------------------------------------------------------------- Cache
NoAccess == [op |-> "none"]

\* Everything a cache access may read or write, gathered in one record.
World ==
  [lines |-> lines, busBusyUntil |-> busBusyUntil,
   invalidationCount |-> invalidationCount, busTrafficBytes |-> busTrafficBytes,
   cacheToCache |-> cacheToCache, memWriteCount |-> memWriteCount,
   cycle |-> currentCycle, dataProvided |-> FALSE, sourceCore |-> -1,
   log |-> << >>]

\* Block address of the line with tag t in set idx (the FLUSH address).
victimBlockAddr(t, idx) == t * numSets * blockSize + idx * blockSize

\* Mutant: the miss is timed from the cycle the bus becomes free.
victimResolveTime_afterBus(b, wb) ==
  IF wb THEN MaxOf2(b.cycle, b.busBusyUntil) + WritebackPenalty
  ELSE MaxOf2(b.cycle, b.busBusyUntil)

\* First value of missResolveTime: currentCycle, plus the write-back penalty
\* when the victim is written back (wb).
victimResolveTime(b, wb) ==
  IF wb THEN b.cycle + WritebackPenalty ELSE b.cycle

\* Victim handling shared by both miss paths: counters, FLUSH and memory
\* write-back of a dirty victim, and the first value of missResolveTime.
evictVictim(c, a, b) ==
  Bind(findVictim(b.lines[c][getIndex(a)]), LAMBDA v :
    LET idx == getIndex(a)
        victim == b.lines[c][idx][v]
        wb == isValid(victim) /\ isDirty(victim)
    IN  [way |-> v, valid |-> isValid(victim), dirty |-> isDirty(victim),
         state |-> victim.state, tag |-> victim.tag, flushed |-> wb,
         resolve |-> victimResolveTime(b, wb),
         world |-> IF wb
                   THEN [coherenceCallback("FLUSH", victimBlockAddr(victim.tag, idx), c, b)
                           EXCEPT !.memWriteCount = @ + 1]
                   ELSE b])

\* Mutant: every fill pays the memory latency.
fillLatency_memoryOnly(dsc) == MemLatency

\* Fill latency chosen from dataSourceCache.
fillLatency(dsc) ==
  IF dsc >= 0 THEN 2 * (blockSize \div WordBytes) ELSE MemLatency

\* Cache::fetchBlockFromMemoryOrCache reads main memory unless the supplier
\* still holds a valid line for the block.
fetchReadsMemory(ln, a, dsc) ==
  ~ ( /\ dsc >= 0 /\ dsc < NumCores
      /\ \E w \in Ways : /\ isValid(ln[dsc][getIndex(a)][w])
                         /\ ln[dsc][getIndex(a)][w].tag = getTag(a) )

\* Mutant: a read miss installs SHARED even when no peer holds the block.
readFillState_alwaysS(dsc) == "S"

\* Mutant: a read miss installs EXCLUSIVE even when a peer supplied.
readFillState_alwaysE(dsc) == "E"

\* MESI state of the line a read miss installs.
readFillState(dsc) == IF dsc >= 0 THEN "S" ELSE "E"

\* Mutant: the line is installed before the peers are probed.
readMiss_installFirst(c, a, b) ==
  Bind(evictVictim(c, a, b), LAMBDA ev :
    Bind(coherenceCallback("BUS_RD", a, c,
           [ev.world EXCEPT !.lines[c][getIndex(a)][ev.way] =
              loadData(@, getTag(a), "E")]), LAMBDA b2 :
      LET idx == getIndex(a)
          dsc == IF b2.dataProvided THEN b2.sourceCore ELSE -1
          newState == readFillState(dsc)
      IN  [world |-> [b2 EXCEPT !.lines[c][idx][ev.way] =
                                   loadData(b2.lines[c][idx][ev.way], getTag(a), newState)],
           ev |-> ev, provided |-> b2.dataProvided, dsc |-> dsc,
           snooped |-> [b2 EXCEPT !.log = << >>],
           resolve |-> ev.resolve + fillLatency(dsc),
           memReads |-> IF fetchReadsMemory(b2.lines, a, dsc) THEN 1 ELSE 0,
           requests |-> IF ev.flushed THEN 2 ELSE 1]))

\* Mutant: the line is not installed in the cycle of the miss (the fill is
\* left to the cycle in which the miss resolves).
readMiss_installLater(c, a, b) ==
  Bind(evictVictim(c, a, b), LAMBDA ev :
    Bind(coherenceCallback("BUS_RD", a, c, ev.world), LAMBDA b2 :
      LET dsc == IF b2.dataProvided THEN b2.sourceCore ELSE -1
      IN  [world |-> b2,
           ev |-> ev, provided |-> b2.dataProvided, dsc |-> dsc,
           snooped |-> [b2 EXCEPT !.log = << >>],
           resolve |-> ev.resolve + fillLatency(dsc),
           memReads |-> IF fetchReadsMemory(b2.lines, a, dsc) THEN 1 ELSE 0,
           requests |-> IF ev.flushed THEN 2 ELSE 1]))

\* Miss path of Cache::read.
readMiss(c, a, b) ==
  Bind(evictVictim(c, a, b), LAMBDA ev :
    Bind(coherenceCallback("BUS_RD", a, c, ev.world), LAMBDA b2 :
      LET idx == getIndex(a)
          dsc == IF b2.dataProvided THEN b2.sourceCore ELSE -1
          newState == readFillState(dsc)
      IN  [world |-> [b2 EXCEPT !.lines[c][idx][ev.way] =
                                   loadData(b2.lines[c][idx][ev.way], getTag(a), newState)],
           ev |-> ev, provided |-> b2.dataProvided, dsc |-> dsc,
           snooped |-> [b2 EXCEPT !.log = << >>],
           resolve |-> ev.resolve + fillLatency(dsc),
           memReads |-> IF fetchReadsMemory(b2.lines, a, dsc) THEN 1 ELSE 0,
           requests |-> IF ev.flushed THEN 2 ELSE 1]))

\* The scan of Cache::write for a peer holding an INVALID line with the
\* requested tag; -1 when there is none.
staleSource(ln, a, c) ==
  LET m == { i \in Cores \ {c} :
               \E w \in Ways : /\ ~isValid(ln[i][getIndex(a)][w])
                               /\ ln[i][getIndex(a)][w].tag = getTag(a) }
  IN  IF m = {} THEN -1 ELSE MinOf(m)

writeSource(ln, a, c, provided, peerId) ==
  IF provided THEN peerId ELSE staleSource(ln, a, c)

\* Miss path of Cache::write.
writeMiss(c, a, b) ==
  Bind(evictVictim(c, a, b), LAMBDA ev :
    Bind(coherenceCallback("BUS_RDX", a, c, ev.world), LAMBDA b2 :
      LET idx == getIndex(a)
          dsc == writeSource(b2.lines, a, c, b2.dataProvided, b2.sourceCore)
          wordOffset == getOffset(a) - (getOffset(a) % 4)
      IN  [world |-> [b2 EXCEPT !.lines[c][idx][ev.way] =
                         writeWord(loadData(b2.lines[c][idx][ev.way], getTag(a), "M"),
                                   wordOffset)],
           ev |-> ev, provided |-> b2.dataProvided, dsc |-> dsc,
           snooped |-> [b2 EXCEPT !.log = << >>],
           resolve |-> ev.resolve + fillLatency(dsc),
           memReads |-> IF fetchReadsMemory(b2.lines, a, dsc) THEN 1 ELSE 0,
           requests |-> IF ev.flushed THEN 2 ELSE 1]))

\* Mutant: a write hit on an EXCLUSIVE line goes over the bus too.
needsUpgrade_exclusiveToo(cur) == cur \in {"S", "E"}

\* Mutant: a write hit never announces the upgrade on the bus.
needsUpgrade_never(cur) == FALSE

\* A write hit issues BUS_UPGR only for a SHARED line.
needsUpgrade(cur) == cur = "S"

\* Hit path of Cache::write after updateLRU, on the line in way w.
writeHit(c, a, w, b) ==
  LET idx == getIndex(a)
      cur == b.lines[c][idx][w].state
      wordOffset == getOffset(a) - (getOffset(a) % 4)
  IN  Bind(IF needsUpgrade(cur) THEN coherenceCallback("BUS_UPGR", a, c, b) ELSE b,
           LAMBDA b1 :
             LET l1 == IF cur \in {"S", "E"}
                       THEN setMESIState(b1.lines[c][idx][w], "M")
                       ELSE b1.lines[c][idx][w]
             IN  [world |-> [b1 EXCEPT !.lines[c][idx][w] = writeWord(l1, wordOffset)],
                  requests |-> IF needsUpgrade(cur) THEN 1 ELSE 0])

\* States in which each cache holds the block of a.
holders(ln, a) == [c \in Cores |-> blockState(ln, c, a)]

\* ------------------------------------------------------------ initial state
\* evictionCount and writebackCount: Cache.cpp counts and reports them, but
\* Cache::Cache does not set them and the Cache.h that declares them is not
\* among the sources; they start at zero here.
evictionStats == [evictionCount |-> 0, writebackCount |-> 0]

NewStats ==
  [accessCount |-> 0, hitCount |-> 0, missCount |-> 0, readCount |-> 0,
   writeCount |-> 0, coherenceCount |-> 0] @@ evictionStats

\* A CacheSet as constructed (every line INVALID with counter 0, lruCounter
\* 0), before any step.
NewProbe ==
  [ls |-> [w \in 1 .. SetWays |-> NewLine], ctr |-> 0, step |-> 0,
   use |-> [w \in 1 .. SetWays |-> 0], last |-> [kind |-> "none"]]

Init ==
  /\ lines = [c \in Cores |-> [s \in SetIdxs |-> [w \in Ways |-> NewLine]]]
  /\ setLru = [c \in Cores |-> [s \in SetIdxs |-> 0]]
  /\ pendingMiss = [c \in Cores |-> FALSE]
  /\ missResolveTime = [c \in Cores |-> 0]
  /\ dataSourceCache = [c \in Cores |-> -1]
  /\ stats = [c \in Cores |-> NewStats]
  /\ busBusyUntil = 0
  /\ invalidationCount = 0
  /\ busTrafficBytes = 0
  /\ cacheToCache = 0
  /\ memReadCount = 0
  /\ memWriteCount = 0
  /\ currentCycle = 0
  /\ blocked = [c \in Cores |-> FALSE]
  /\ cyclesBlocked = [c \in Cores |-> 0]
  /\ instructionsExecuted = [c \in Cores |-> 0]
  /\ fileEnded = [c \in Cores |-> FALSE]
  /\ finishCycle = [c \in Cores |-> 0]
  /\ endedAt = [c \in Cores |-> 0]
  /\ recordsLeft = MaxInstr
  /\ phase = "boundary"
  /\ slot = 0
  /\ last = NoAccess
  /\ lastMiss = [c \in Cores |-> [op |-> "none"]]
  /\ evictedShared = {}
  /\ downgradedAt = [x \in Cores \X AllBlocks |-> 0]
  /\ issuedNow = {}
  /\ skipped = [now |-> {}, prev |-> {}]
  /\ stallOwed = [c \in Cores |-> 0]
  /\ wellFormed = [c \in Cores |-> 0]
  /\ probe = NewProbe

\* ------------------------------------------------------------- scheduler
allTracesCompleted == \A c \in Cores : fileEnded[c]

\* Mutant: the loop stops as soon as no processor is blocked.
isSimulationComplete_blockedOnly == \A c \in Cores : ~blocked[c]

isSimulationComplete == allTracesCompleted /\ \A c \in Cores : ~blocked[c]

\* The issue loop from processor q on, up to the first processor that will
\* read its trace: a blocked processor counts an idle cycle, an unblocked
\* one whose trace has ended does nothing.
RECURSIVE runSlots(_, _, _, _)
\* Mutant: the issue loop gives a blocked processor its slot too.
runSlots_ignoreBlocked(q, blk, ended, cb) ==
  IF q >= NumCores THEN [slot |-> NumCores, cb |-> cb]
  ELSE IF ended[q] THEN runSlots(q + 1, blk, ended, cb)
  ELSE [slot |-> q, cb |-> cb]

runSlots(q, blk, ended, cb) ==
  IF q >= NumCores THEN [slot |-> NumCores, cb |-> cb]
  ELSE IF blk[q] THEN runSlots(q + 1, blk, ended, [cb EXCEPT ![q] = @ + 1])
  ELSE IF ended[q] THEN runSlots(q + 1, blk, ended, cb)
  ELSE [slot |-> q, cb |-> cb]

\* Mutant: the miss is reported resolved one cycle late.
checkMissResolved_late(pm, mrt, cyc, c) == pm[c] /\ cyc > mrt[c]

\* Mutant: the miss is reported resolved one cycle early.
checkMissResolved_early(pm, mrt, cyc, c) == pm[c] /\ cyc + 1 >= mrt[c]

\* Cache::checkMissResolved of cache c at cycle cyc.
checkMissResolved(pm, mrt, cyc, c) == pm[c] /\ cyc >= mrt[c]

\* Mutant: the finish cycle is taken when the next cycle starts.
recordFinish_cycleAfter(fc, ended, cyc) ==
  IF fc = 0 /\ ended THEN cyc + 1 ELSE fc

\* finishCycle of a processor after a cycle: set to the current cycle if it
\* is still 0 and the processor has no more instructions.
recordFinish(fc, ended, cyc) ==
  IF fc = 0 /\ ended THEN cyc ELSE fc

\* The rest of processNextCycle after processor q - 1 had its slot, given the
\* blocked flags, instruction counts, pending misses, resolve times and
\* trace-ended flags its step leaves: the remaining slots, and once the
\* issue loop is over the loop that clears every resolved miss and unblocks
\* its processor (Processor::setBlocked(false) counts the instruction that
\* had blocked it), and after it the loop of TestSimulator::processNextCycle
\* that records the finish cycle of every processor without instructions
\* left.
FinishCycle(q, blk, ie, pm, mrt, ended, cyc) ==
  \E r \in { runSlots(q, blk, ended, cyclesBlocked) } :
  /\ cyclesBlocked' = r.cb
  /\ IF r.slot < NumCores
     THEN /\ phase' = "issue"
          /\ slot' = r.slot
          /\ blocked' = blk
          /\ instructionsExecuted' = ie
          /\ pendingMiss' = pm
          /\ UNCHANGED finishCycle
     ELSE /\ phase' = "boundary"
          /\ slot' = 0
          /\ pendingMiss' = [c \in Cores |->
               IF checkMissResolved(pm, mrt, cyc, c) THEN FALSE ELSE pm[c]]
          /\ blocked' = [c \in Cores |->
               IF checkMissResolved(pm, mrt, cyc, c) THEN FALSE ELSE blk[c]]
          /\ instructionsExecuted' = [c \in Cores |->
               IF checkMissResolved(pm, mrt, cyc, c) /\ blk[c]
               THEN ie[c] + 1 ELSE ie[c]]
          /\ finishCycle' = [c \in Cores |->
               recordFinish(finishCycle[c], ended[c], cyc)]

Commit(b) ==
  /\ lines' = b.lines
  /\ busBusyUntil' = b.busBusyUntil
  /\ invalidationCount' = b.invalidationCount
  /\ busTrafficBytes' = b.busTrafficBytes
  /\ cacheToCache' = b.cacheToCache
  /\ memWriteCount' = b.memWriteCount

BusUnchanged ==
  UNCHANGED << busBusyUntil, invalidationCount, busTrafficBytes, cacheToCache,
               memWriteCount >>

\* ++currentCycle and setCycle on every cache, then the issue loop up to the
\* first trace read; the loop of Simulator::run and of main calls
\* processNextCycle while the simulation is not complete.
Tick ==
  /\ phase = "boundary"
  /\ ~isSimulationComplete
  /\ currentCycle < MaxCycle
  /\ currentCycle' = currentCycle + 1
  /\ FinishCycle(0, blocked, instructionsExecuted, pendingMiss, missResolveTime,
                 fileEnded, currentCycle + 1)
  /\ issuedNow' = {}
  /\ skipped' = [now |-> {}, prev |-> skipped.now]
  /\ UNCHANGED << wellFormed, endedAt, probe >>
  /\ last' = NoAccess
  /\ UNCHANGED histVars
  /\ UNCHANGED << lines, setLru, missResolveTime, dataSourceCache,
                  stats, busBusyUntil, invalidationCount, busTrafficBytes,
                  cacheToCache, memReadCount, memWriteCount, fileEnded,
                  recordsLeft >>

\* getNextInstruction finds the end of the trace (or a blank or truncated
\* line): the trace is marked ended and an invalid instruction comes back.
ReadEOF ==
  /\ phase = "issue"
  /\ fileEnded' = [fileEnded EXCEPT ![slot] = TRUE]
  /\ FinishCycle(slot + 1, blocked, instructionsExecuted, pendingMiss,
                 missResolveTime, [fileEnded EXCEPT ![slot] = TRUE], currentCycle)
  /\ issuedNow' = issuedNow \cup {slot}
  /\ endedAt' = [endedAt EXCEPT ![slot] = currentCycle]
  /\ UNCHANGED << wellFormed, skipped, probe >>
  /\ last' = NoAccess
  /\ UNCHANGED histVars
  /\ UNCHANGED << lines, setLru, missResolveTime, dataSourceCache,
                  stats, busBusyUntil, invalidationCount, busTrafficBytes,
                  cacheToCache, memReadCount, memWriteCount, currentCycle,
                  recordsLeft >>

\* Mutant: the unknown opcode falls through to the end-of-file exit of
\* getNextInstruction.
SkipRecord_endsTrace ==
  /\ phase = "issue"
  /\ recordsLeft > 0
  /\ recordsLeft' = recordsLeft - 1
  /\ fileEnded' = [fileEnded EXCEPT ![slot] = TRUE]
  /\ FinishCycle(slot + 1, blocked, instructionsExecuted, pendingMiss,
                 missResolveTime, [fileEnded EXCEPT ![slot] = TRUE], currentCycle)
  /\ issuedNow' = issuedNow \cup {slot}
  /\ skipped' = [skipped EXCEPT !.now = @ \cup {slot}]
  /\ UNCHANGED << wellFormed, endedAt, probe >>
  /\ last' = NoAccess
  /\ UNCHANGED histVars
  /\ UNCHANGED << lines, setLru, missResolveTime, dataSourceCache,
                  stats, busBusyUntil, invalidationCount, busTrafficBytes,
                  cacheToCache, memReadCount, memWriteCount, currentCycle >>

\* getNextInstruction reads a record with an unknown opcode: an invalid
\* instruction comes back and executeNextInstruction returns at once.
SkipRecord ==
  /\ phase = "issue"
  /\ recordsLeft > 0
  /\ recordsLeft' = recordsLeft - 1
  /\ FinishCycle(slot + 1, blocked, instructionsExecuted, pendingMiss,
                 missResolveTime, fileEnded, currentCycle)
  /\ issuedNow' = issuedNow \cup {slot}
  /\ skipped' = [skipped EXCEPT !.now = @ \cup {slot}]
  /\ UNCHANGED << wellFormed, endedAt, probe >>
  /\ last' = NoAccess
  /\ UNCHANGED histVars
  /\ UNCHANGED << lines, setLru, missResolveTime, dataSourceCache,
                  stats, busBusyUntil, invalidationCount, busTrafficBytes,
                  cacheToCache, memReadCount, memWriteCount, currentCycle,
                  fileEnded >>

\* What executeNextInstruction does with the result of the cache access,
\* and the rest of the cycle: pm and mrt are the pendingMiss flags and
\* resolve times the access leaves.
Issued(p, success, pm, mrt) ==
  FinishCycle(p + 1,
              [blocked EXCEPT ![p] = ~success],
              [instructionsExecuted EXCEPT ![p] = IF success THEN @ + 1 ELSE @],
              pm, mrt, fileEnded, currentCycle)

\* The shape of `last` for an access of core p; a miss adds `snooped`, the
\* world as the bus callback of its BUS_RD or BUS_RDX returned it, before
\* the install.
Access(op, p, a, kind, ev, provided, dsc, log) ==
  [op |-> op, core |-> p, addr |-> a, kind |-> kind, cycle |-> currentCycle,
   log |-> log,
   pre |-> World, own |-> blockState(lines, p, a),
   victimValid |-> ev.valid, victimDirty |-> ev.dirty, victimState |-> ev.state,
   victimTag |-> ev.tag, victimWay |-> ev.way, provided |-> provided, dsc |-> dsc,
   preStats |-> stats[p], preBlocked |-> blocked]

NoVictim == [valid |-> FALSE, dirty |-> FALSE, state |-> "I", tag |-> 0, way |-> 0]

\* History of the miss m of core p.
RecordMiss(op, p, a, m) ==
  /\ lastMiss' = [lastMiss EXCEPT ![p] =
       [op |-> op, cycle |-> currentCycle, addr |-> a,
        victimM |-> (m.ev.valid /\ m.ev.state = "M"),
        provided |-> m.provided,
        peerHeld |-> (\E d \in Cores \ {p} : blockState(lines, d, a) # "I")]]
  /\ evictedShared' =
       LET kept == { x \in evictedShared : x[2] # getBlockAddress(a) }
       IN  IF m.ev.valid /\ m.ev.state = "S"
           THEN kept \cup { << p, victimBlockAddr(m.ev.tag, getIndex(a)) >> }
           ELSE kept
  /\ downgradedAt' = [x \in Cores \X AllBlocks |->
       IF /\ op = "R" /\ x[1] # p /\ x[2] = getBlockAddress(a)
          /\ blockState(lines, x[1], a) \in {"M", "E"}
       THEN currentCycle ELSE downgradedAt[x]]
  /\ stallOwed' = [stallOwed EXCEPT ![p] = @ + (m.resolve - currentCycle)]

\* Mutant: every valid victim counts as a write-back.
missStats_writebackAlways(st, m) ==
  [st EXCEPT !.missCount = @ + 1,
             !.evictionCount = IF m.ev.valid THEN @ + 1 ELSE @,
             !.writebackCount = IF m.ev.valid THEN @ + 1 ELSE @,
             !.coherenceCount = @ + m.requests]

\* Mutant: the miss is counted once per bus request it sends (twice when
\* the victim is flushed).
missStats_perRequest(st, m) ==
  [st EXCEPT !.missCount = @ + m.requests,
             !.evictionCount = IF m.ev.valid THEN @ + 1 ELSE @,
             !.writebackCount = IF m.ev.valid /\ m.ev.dirty THEN @ + 1 ELSE @,
             !.coherenceCount = @ + m.requests]

missStats(st, m) ==
  [st EXCEPT !.missCount = @ + 1,
             !.evictionCount = IF m.ev.valid THEN @ + 1 ELSE @,
             !.writebackCount = IF m.ev.valid /\ m.ev.dirty THEN @ + 1 ELSE @,
             !.coherenceCount = @ + m.requests]

\* Cache::read of cache p for address a, with everything it calls: the
\* counters, the hit or the miss path, the bus callback and the snoops.  It
\* leaves pendingMiss to pendingAfter, since the caller's cycle may go on to
\* clear it.
CacheRead(p, a) ==
  LET idx == getIndex(a)
      w == findLine(lines[p][idx], getTag(a))
      st == [stats[p] EXCEPT !.accessCount = @ + 1, !.readCount = @ + 1]
  IN
  IF pendingMiss[p]
  THEN /\ stats' = [stats EXCEPT ![p] = st]
       /\ last' = Access("R", p, a, "stalled", NoVictim, FALSE, -1, << >>)
       /\ UNCHANGED histVars
       /\ UNCHANGED << lines, setLru, missResolveTime, dataSourceCache,
                       memReadCount >>
       /\ BusUnchanged
  ELSE IF w # 0
  THEN /\ \E r \in updateLRU(lines[p][idx], setLru[p][idx], w) :
            /\ lines' = [lines EXCEPT ![p][idx] = r.ls]
            /\ setLru' = [setLru EXCEPT ![p][idx] = r.ctr]
       /\ stats' = [stats EXCEPT ![p] = [st EXCEPT !.hitCount = @ + 1]]
       /\ last' = Access("R", p, a, "hit", NoVictim, FALSE, -1, << >>)
       /\ UNCHANGED histVars
       /\ UNCHANGED << missResolveTime, dataSourceCache, memReadCount >>
       /\ BusUnchanged
  ELSE \E b \in { World } : \E m \in { readMiss(p, a, b) } :
       /\ Commit(m.world)
       /\ stats' = [stats EXCEPT ![p] = missStats(st, m)]
       /\ dataSourceCache' = [dataSourceCache EXCEPT ![p] = m.dsc]
       /\ missResolveTime' = [missResolveTime EXCEPT ![p] = m.resolve]
       /\ memReadCount' = memReadCount + m.memReads
       /\ last' = Access("R", p, a, "miss", m.ev, m.provided, m.dsc, m.world.log)
                   @@ [snooped |-> m.snooped]
       /\ RecordMiss("R", p, a, m)
       /\ UNCHANGED setLru

\* Cache::write of cache p for address a, with everything it calls.
CacheWrite(p, a) ==
  LET idx == getIndex(a)
      w == findLine(lines[p][idx], getTag(a))
      st == [stats[p] EXCEPT !.accessCount = @ + 1, !.writeCount = @ + 1]
  IN
  IF pendingMiss[p]
  THEN /\ stats' = [stats EXCEPT ![p] = st]
       /\ last' = Access("W", p, a, "stalled", NoVictim, FALSE, -1, << >>)
       /\ UNCHANGED histVars
       /\ UNCHANGED << lines, setLru, missResolveTime, dataSourceCache,
                       memReadCount >>
       /\ BusUnchanged
  ELSE IF w # 0
  THEN /\ \E r \in updateLRU(lines[p][idx], setLru[p][idx], w) :
            \E b \in { [World EXCEPT !.lines = [lines EXCEPT ![p][idx] = r.ls]] } :
            \E h \in { writeHit(p, a, w, b) } :
                /\ Commit(h.world)
                /\ setLru' = [setLru EXCEPT ![p][idx] = r.ctr]
                /\ stats' = [stats EXCEPT ![p] =
                     [st EXCEPT !.hitCount = @ + 1,
                                !.coherenceCount = @ + h.requests]]
                /\ last' = Access("W", p, a, "hit", NoVictim, FALSE, -1,
                                  h.world.log)
       /\ evictedShared' = { x \in evictedShared : x[2] # getBlockAddress(a) }
       /\ UNCHANGED << lastMiss, downgradedAt, stallOwed >>
       /\ UNCHANGED << missResolveTime, dataSourceCache, memReadCount >>
  ELSE \E b \in { World } : \E m \in { writeMiss(p, a, b) } :
       /\ Commit(m.world)
       /\ stats' = [stats EXCEPT ![p] = missStats(st, m)]
       /\ dataSourceCache' = [dataSourceCache EXCEPT ![p] = m.dsc]
       /\ missResolveTime' = [missResolveTime EXCEPT ![p] = m.resolve]
       /\ memReadCount' = memReadCount + m.memReads
       /\ last' = Access("W", p, a, "miss", m.ev, m.provided, m.dsc, m.world.log)
                   @@ [snooped |-> m.snooped]
       /\ RecordMiss("W", p, a, m)
       /\ UNCHANGED setLru

\* pendingMiss as the access of kind `kind` by cache p leaves it: a miss
\* sets the flag of p.
pendingAfter(p, kind) ==
  IF kind = "miss" THEN [pendingMiss EXCEPT ![p] = TRUE] ELSE pendingMiss

\* A read record: Processor::executeNextInstruction calling Cache::read.
\* a is the address getNextInstruction hands over.  wf is FALSE for a record
\* whose address token is not a hexadecimal number: strtoul makes an address
\* of its longest hexadecimal prefix (0 if there is none) without reporting
\* anything, and the record is serviced like any other.
ExecRead(a, wf) ==
  /\ phase = "issue"
  /\ recordsLeft > 0
  /\ recordsLeft' = recordsLeft - 1
  /\ CacheRead(slot, a)
  /\ Issued(slot, last'.kind = "hit", pendingAfter(slot, last'.kind),
            missResolveTime')
  /\ issuedNow' = issuedNow \cup {slot}
  /\ wellFormed' = [wellFormed EXCEPT ![slot] = IF wf THEN @ + 1 ELSE @]
  /\ UNCHANGED << currentCycle, fileEnded, endedAt, skipped, probe >>

\* A write record: Processor::executeNextInstruction calling Cache::write;
\* a and wf as for a read record.
ExecWrite(a, wf) ==
  /\ phase = "issue"
  /\ recordsLeft > 0
  /\ recordsLeft' = recordsLeft - 1
  /\ CacheWrite(slot, a)
  /\ Issued(slot, last'.kind = "hit", pendingAfter(slot, last'.kind),
            missResolveTime')
  /\ issuedNow' = issuedNow \cup {slot}
  /\ wellFormed' = [wellFormed EXCEPT ![slot] = IF wf THEN @ + 1 ELSE @]
  /\ UNCHANGED << currentCycle, fileEnded, endedAt, skipped, probe >>

\* The records of the bounded traces, as << address, wf >>: a read or a write
\* of every address of Addrs, and one read whose address token has no
\* hexadecimal digit at all ("R zz"), which strtoul converts to 0.
ReadRecords == { << a, TRUE >> : a \in Addrs } \cup { << 0, FALSE >> }

WriteRecords == { << a, TRUE >> : a \in Addrs }

Next ==
  \/ Tick
  \/ ReadEOF
  \/ SkipRecord
  \/ \E r \in ReadRecords : ExecRead(r[1], r[2])
  \/ \E r \in WriteRecords : ExecWrite(r[1], r[2])

Spec == Init /\ [][Next]_vars

\* The loop of Simulator::run keeps calling processNextCycle, and every call
\* of it and every trace read returns: a step that can be taken is taken.
LiveSpec == Init /\ [][Next]_vars /\ WF_vars(Next)

\* -------------------------------------------- the caches called directly
\* A client that holds the simulator's caches (Simulator::getCaches, as the
\* test harness does) and calls them itself, in any order and whether or
\* not a miss is pending: Cache::read, Cache::write, setCycle on every
\* cache, Cache::checkMissResolved.  The processors take no part.
procVars == << blocked, cyclesBlocked, instructionsExecuted, fileEnded,
               recordsLeft, phase, slot, issuedNow, wellFormed, finishCycle,
               endedAt, skipped, probe >>

RECURSIVE apiCalls(_)
apiCalls(c) == IF c < 0 THEN 0 ELSE stats[c].accessCount + apiCalls(c - 1)

ApiRead(c, a) ==
  /\ apiCalls(NumCores - 1) < MaxApiCalls
  /\ CacheRead(c, a)
  /\ pendingMiss' = pendingAfter(c, last'.kind)
  /\ UNCHANGED << currentCycle, procVars >>

ApiWrite(c, a) ==
  /\ apiCalls(NumCores - 1) < MaxApiCalls
  /\ CacheWrite(c, a)
  /\ pendingMiss' = pendingAfter(c, last'.kind)
  /\ UNCHANGED << currentCycle, procVars >>

\* setCycle(currentCycle + 1) on every cache.
ApiSetCycle ==
  /\ currentCycle < MaxApiCycle
  /\ currentCycle' = currentCycle + 1
  /\ last' = NoAccess
  /\ UNCHANGED << lines, setLru, pendingMiss, missResolveTime, dataSourceCache,
                  stats, memReadCount, histVars, procVars >>
  /\ BusUnchanged

\* Cache::checkMissResolved of cache c returning true.
ApiCheckMissResolved(c) ==
  /\ checkMissResolved(pendingMiss, missResolveTime, currentCycle, c)
  /\ pendingMiss' = [pendingMiss EXCEPT ![c] = FALSE]
  /\ last' = NoAccess
  /\ UNCHANGED << lines, setLru, missResolveTime, dataSourceCache, stats,
                  memReadCount, currentCycle, histVars, procVars >>
  /\ BusUnchanged

ApiNext ==
  \/ \E c \in Cores, a \in Addrs : ApiRead(c, a)
  \/ \E c \in Cores, a \in Addrs : ApiWrite(c, a)
  \/ ApiSetCycle
  \/ \E c \in Cores : ApiCheckMissResolved(c)

ApiSpec == Init /\ [][ApiNext]_vars

\* --------------------------------------------------- one set on its own
\* What Cache::read and Cache::write do to the CacheSet of the address, seen
\* from that set alone: a hit calls updateLRU on the line found (and a write
\* hit writes the word); a miss takes the line findVictim returns and loads
\* the block into it (EXCLUSIVE for a read, MODIFIED for a write, no peer
\* holding it) without calling updateLRU.  SetStep is the probe after a step
\* of kind `kind` on line w that leaves lines ls and lruCounter ctr.
SetStep(kind, w, ls, ctr) ==
  [ls |-> ls, ctr |-> ctr, step |-> probe.step + 1,
   use |-> [probe.use EXCEPT ![w] = IF kind = "snoop" THEN @ ELSE probe.step + 1],
   last |-> [kind |-> kind, way |-> w, pre |-> probe.ls, preUse |-> probe.use]]

SetAccessOfWidth(op, tag, max, ops) ==
  /\ probe.step < ops
  /\ \E w \in { findLine(probe.ls, tag) } :
       IF w # 0
       THEN \E r \in updateLRUOfWidth(IF op = "W"
                                       THEN [probe.ls EXCEPT ![w] = writeWord(@, 0)]
                                       ELSE probe.ls, probe.ctr, w, max) :
              probe' = SetStep("hit", w, r.ls, r.ctr)
       ELSE \E v \in { findVictim(probe.ls) } :
              probe' = SetStep("miss", v,
                               [probe.ls EXCEPT ![v] =
                                  loadData(@, tag, IF op = "W" THEN "M" ELSE "E")],
                               probe.ctr)
  /\ UNCHANGED simVars

SetAccess(op, tag) == SetAccessOfWidth(op, tag, UIntMax, MaxSetOps)

\* A peer's BUS_RDX or BUS_UPGR for the block of valid line w reaches the
\* set: handleBusTransaction invalidates the line.
SnoopInvalidateUpTo(w, ops) ==
  /\ probe.step < ops
  /\ isValid(probe.ls[w])
  /\ probe' = SetStep("snoop", w,
                      [probe.ls EXCEPT ![w] = setMESIState(@, "I")], probe.ctr)
  /\ UNCHANGED simVars

SnoopInvalidate(w) == SnoopInvalidateUpTo(w, MaxSetOps)

SetNext ==
  \/ \E op \in {"R", "W"}, tag \in 0 .. MaxSetTag : SetAccess(op, tag)
  \/ \E w \in 1 .. SetWays : SnoopInvalidate(w)

SetSpec == Init /\ [][SetNext]_vars

\* The same set with an LRU counter of LruBits bits, so that the counter
\* reaches its greatest value within a few hits.
LruMax == Pow2(LruBits) - 1

WrapAccess(op, tag) == SetAccessOfWidth(op, tag, LruMax, MaxWrapOps)

WrapSnoop(w) == SnoopInvalidateUpTo(w, MaxWrapOps)

WrapNext ==
  \/ \E op \in {"R", "W"}, tag \in 0 .. MaxSetTag : WrapAccess(op, tag)
  \/ \E w \in 1 .. SetWays : WrapSnoop(w)

WrapSpec == Init /\ [][WrapNext]_vars

\* ======================================================================
\* Properties
\* ======================================================================
\* Every block a trace address can name.
Blocks == AllBlocks

\* Cache c has a line in state st for block a.
holdsIn(c, a, st) ==
  \E w \in Ways : /\ lines[c][getIndex(a)][w].tag = getTag(a)
                  /\ lines[c][getIndex(a)][w].state = st

\* Cache c has a valid line for block a.
holds(c, a) == \E st \in {"M", "E", "S"} : holdsIn(c, a, st)

AtBoundary == phase = "boundary"

\* C1: in every reachable state (after every access and at every cycle
\* boundary) a block is MODIFIED in at most one cache, and while one cache
\* holds it MODIFIED no other cache has a valid line for it.
C1_ModifiedIsExclusive ==
  \A a \in Blocks : \A c \in Cores :
    holdsIn(c, a, "M") => \A d \in Cores \ {c} : ~holds(d, a)

\* C1 witness: a write has just left its block MODIFIED in the writer's
\* cache while a peer held a valid copy of that block before the write.
C1_Witness ==
  /\ last.op = "W"
  /\ holdsIn(last.core, last.addr, "M")
  /\ \E d \in Cores \ {last.core} : blockState(last.pre.lines, d, last.addr) # "I"

\* C2: in every reachable state, a block that some cache holds EXCLUSIVE is
\* valid in no other cache.
C2_ExclusiveIsAlone ==
  \A a \in Blocks : \A c \in Cores :
    holdsIn(c, a, "E") => \A d \in Cores \ {c} : ~holds(d, a)

\* C2 witness: a cache still holds a block EXCLUSIVE right after another
\* core's miss went over the bus.
C2_Witness ==
  /\ last.op \in {"R", "W"}
  /\ last.kind = "miss"
  /\ \E c \in Cores \ {last.core} : \E a \in Blocks : holdsIn(c, a, "E")

\* Cache c is the only cache holding block a SHARED.
loneSharer(c, a) ==
  holdsIn(c, a, "S") /\ \A d \in Cores \ {c} : ~holdsIn(d, a, "S")

\* C3 as claimed: at every cycle boundary a block SHARED in one cache is
\* SHARED in another cache too, or its line was taken from M or E to S by a
\* snoop of this very cycle.
C3_AsClaimed ==
  AtBoundary =>
    \A a \in Blocks : \A c \in Cores :
      loneSharer(c, a) => downgradedAt[<< c, a >>] = currentCycle

\* C3 amended: at every cycle boundary a block SHARED in one cache is SHARED
\* in another cache too, or was taken from M or E to S by a snoop of this
\* cycle, or another cache has replaced its own SHARED copy of the block
\* since the block last went over the bus.
C3_SharedUnlessSharerEvicted ==
  AtBoundary =>
    \A a \in Blocks : \A c \in Cores :
      loneSharer(c, a) =>
        \/ downgradedAt[<< c, a >>] = currentCycle
        \/ \E d \in Cores \ {c} : << d, a >> \in evictedShared

\* C3 witness: a cycle boundary at which one cache alone holds a block
\* SHARED, the cycle after the other sharer replaced its copy.
C3_Witness ==
  /\ AtBoundary
  /\ \E a \in Blocks : \E c \in Cores :
       /\ loneSharer(c, a)
       /\ \E d \in Cores \ {c} : << d, a >> \in evictedShared
       /\ downgradedAt[<< c, a >>] # currentCycle

\* State in which peer d held the block of the access `last` before it.
preState(d) == blockState(last.pre.lines, d, last.addr)

\* Peers of the accessing core that held the block before the access.
preHolders == { d \in Cores \ {last.core} : preState(d) # "I" }

preModified == { d \in Cores \ {last.core} : preState(d) = "M" }

IsReadMiss == last.op = "R" /\ last.kind = "miss"
IsWriteMiss == last.op = "W" /\ last.kind = "miss"
IsWriteHit == last.op = "W" /\ last.kind = "hit"

\* Main-memory writes of the access: one per MODIFIED victim flushed.
victimWrites == IF last.victimValid /\ last.victimDirty THEN 1 ELSE 0

\* C4: right after a read miss the line installed in the reader's cache is
\* SHARED if some peer held the block in M, E or S when BUS_RD was snooped,
\* and EXCLUSIVE exactly when no peer held a valid copy.
C4_ReadMissFillState ==
  IsReadMiss =>
    /\ preHolders # {} => holdsIn(last.core, last.addr, "S")
    /\ holdsIn(last.core, last.addr, "E") <=> preHolders = {}

\* C4 witness: a read miss answered by peers that held the block SHARED.
C4_Witness ==
  /\ IsReadMiss
  /\ preHolders # {}
  /\ \A d \in preHolders : preState(d) = "S"
  /\ holdsIn(last.core, last.addr, "S")

\* C5: a peer snooping BUS_RD for a block it holds writes it to memory (one
\* memory write more) and goes to S if it held it M, goes to S without a
\* memory write if it held it E, stays S if it held it S; each of them
\* reports providedData, so the lowest-numbered holder is the data source;
\* after the read miss the reader and every former holder are in S.
C5_BusRdSnoop ==
  IsReadMiss =>
    /\ \A d \in preHolders : holdsIn(d, last.addr, "S")
    /\ memWriteCount = last.pre.memWriteCount + Cardinality(preModified) + victimWrites
    /\ last.provided <=> preHolders # {}
    /\ preHolders # {} =>
         /\ last.dsc = MinOf(preHolders)
         /\ holdsIn(last.core, last.addr, "S")

\* C5 witness: a read miss whose block a peer held MODIFIED; the peer wrote
\* it to memory and is SHARED now.
C5_Witness ==
  /\ IsReadMiss
  /\ \E d \in preModified : holdsIn(d, last.addr, "S")
  /\ memWriteCount > last.pre.memWriteCount

\* C6: right after a write miss the writer holds the block MODIFIED and no
\* peer has a valid copy; a peer that held it MODIFIED wrote it to memory and
\* reported providedData, peers that held it E or S reported nothing.
C6_WriteMiss ==
  IsWriteMiss =>
    /\ holdsIn(last.core, last.addr, "M")
    /\ \A d \in Cores \ {last.core} : ~holds(d, last.addr)
    /\ memWriteCount = last.pre.memWriteCount + Cardinality(preModified) + victimWrites
    /\ last.provided <=> preModified # {}

\* C6 witness: a write miss that invalidated a peer's E or S copy, with no
\* peer reporting providedData.
C6_Witness ==
  /\ IsWriteMiss
  /\ \E d \in preHolders : preState(d) \in {"E", "S"}
  /\ ~last.provided
  /\ holdsIn(last.core, last.addr, "M")

C8_WriteHitSilent ==
  (IsWriteHit /\ last.own \in {"M", "E"}) =>
    /\ ~blocked[last.core] /\ ~pendingMiss[last.core]
    /\ holdsIn(last.core, last.addr, "M")
    /\ stats[last.core].coherenceCount = last.preStats.coherenceCount
    /\ busBusyUntil = last.pre.busBusyUntil
    /\ busTrafficBytes = last.pre.busTrafficBytes
    /\ invalidationCount = last.pre.invalidationCount
    /\ \A d \in Cores \ {last.core} : lines[d] = last.pre.lines[d]

\* C8 witness: a write hit on an EXCLUSIVE line.
C8_Witness ==
  /\ IsWriteHit
  /\ last.own = "E"
  /\ holdsIn(last.core, last.addr, "M")

\* Cache-to-cache transfer time of one block: 2 cycles per word.
transferCycles == 2 * (blockSize \div WordBytes)

\* c + W + F for the miss recorded in m, with F chosen by whether a peer
\* reported providedData on the snoop.
claimedResolveTime(m) ==
  m.cycle + (IF m.victimM THEN WritebackPenalty ELSE 0)
          + (IF m.provided THEN transferCycles ELSE MemLatency)

\* C9: a read miss issued at cycle c has missResolveTime = c + W + F, with
\* W = 100 if the victim was MODIFIED (else 0) and F = 2*(blockSize/4) if a
\* peer supplied the block (else 100); checkMissResolved leaves the miss
\* pending at the end of every cycle before c + W + F and clears it at the
\* end of cycle c + W + F.
C9_ReadMissResolveTime ==
  \A c \in Cores :
    lastMiss[c].op = "R" =>
      /\ missResolveTime[c] = claimedResolveTime(lastMiss[c])
      /\ AtBoundary =>
           (pendingMiss[c] <=> currentCycle < claimedResolveTime(lastMiss[c]))
      /\ ~AtBoundary =>
           (pendingMiss[c] <=> currentCycle <= claimedResolveTime(lastMiss[c]))

\* C9 witness: a read miss that wrote back a MODIFIED victim and was filled
\* by a peer is cleared at the end of cycle c + 100 + 2*(blockSize/4).
C9_Witness ==
  \E c \in Cores :
    /\ lastMiss[c].op = "R"
    /\ lastMiss[c].victimM
    /\ lastMiss[c].provided
    /\ AtBoundary
    /\ currentCycle = claimedResolveTime(lastMiss[c])
    /\ ~pendingMiss[c]

\* C10 (as claimed): a write miss gets the cache-to-cache fill latency only
\* when a peer reported providedData on the BUS_RDX snoop and the 100-cycle
\* memory latency in every other case, so missResolveTime = c + W + F with F
\* chosen by providedData alone.
C10_AsClaimed ==
  \A c \in Cores :
    lastMiss[c].op = "W" =>
      missResolveTime[c] = claimedResolveTime(lastMiss[c])

IsMiss == last.op \in {"R", "W"} /\ last.kind = "miss"

\* Block address of the victim line of the access `last`.
lastVictimBlock == victimBlockAddr(last.victimTag, getIndex(last.addr))

\* The FLUSH transactions of the access `last`, as positions of its bus log.
flushesOf == { i \in DOMAIN last.log : last.log[i].t = "FLUSH" }

\* C11: on a miss whose victim is valid and MODIFIED, evictionCount and
\* writebackCount grow by 1, exactly one FLUSH goes out, for the victim's
\* block, ahead of the BUS_RD / BUS_RDX (which sees the victim already
\* written to memory), and 100 cycles are added to the miss latency; a valid
\* victim in another state adds 1 to evictionCount only, with no FLUSH and no
\* added cycles; an INVALID victim changes neither counter.
C11_VictimHandling ==
  IsMiss =>
    LET c == last.core
        fill == missResolveTime[c] - last.cycle - fillLatency(last.dsc)
        ec == stats[c].evictionCount - last.preStats.evictionCount
        wc == stats[c].writebackCount - last.preStats.writebackCount
    IN  IF last.victimValid /\ last.victimState = "M"
        THEN /\ ec = 1 /\ wc = 1
             /\ flushesOf = {1}
             /\ last.log[1].addr = lastVictimBlock
             /\ Len(last.log) = 2
             /\ last.log[2].t \in {"BUS_RD", "BUS_RDX"}
             /\ last.log[2].pre.memWriteCount = last.pre.memWriteCount + 1
             /\ fill = WritebackPenalty
        ELSE /\ ec = (IF last.victimValid THEN 1 ELSE 0)
             /\ wc = 0
             /\ flushesOf = {}
             /\ fill = 0

\* C11 witness: a miss that replaces a MODIFIED line.
C11_Witness ==
  /\ IsMiss
  /\ last.victimValid /\ last.victimState = "M"
  /\ flushesOf = {1}

\* C11 second witness case: a miss that replaces a valid clean line.
C11_WitnessClean ==
  /\ IsMiss
  /\ last.victimValid /\ last.victimState \in {"E", "S"}
  /\ stats[last.core].evictionCount = last.preStats.evictionCount + 1

\* Cache c has had a miss.
hasMissed(c) == lastMiss[c].op # "none"

\* C12: a pending miss is cleared by the resolve loop of the first cycle
\* whose number is >= missResolveTime and of no earlier cycle (during the
\* issue slots of that cycle it is still pending); the processor is
\* unblocked with it, and reads its next trace record in the cycle after.
C12_MissResolution ==
  \A c \in Cores :
    /\ ~hasMissed(c) => ~pendingMiss[c]
    /\ hasMissed(c) =>
         /\ AtBoundary => (pendingMiss[c] <=> currentCycle < missResolveTime[c])
         /\ ~AtBoundary => (pendingMiss[c] <=> currentCycle <= missResolveTime[c])
         /\ blocked[c] <=> pendingMiss[c]
         /\ (AtBoundary /\ currentCycle = missResolveTime[c] + 1) => c \in issuedNow

\* C12 witness: a core whose miss resolved at the end of the cycle before
\* has just had a record of its trace serviced.
C12_Witness ==
  /\ AtBoundary
  /\ last.op \in {"R", "W"}
  /\ hasMissed(last.core)
  /\ last.cycle = currentCycle
  /\ currentCycle = lastMiss[last.core].cycle + MemLatency + 1
  /\ last.core \in issuedNow

\* C13: at every cycle boundary a processor is blocked exactly when its cache
\* has pendingMiss set; a core whose miss is pending is never the one about
\* to read its trace, and no read or write reaches a cache whose miss is
\* pending, so each core has at most one miss outstanding.
C13_BlockedIffPending ==
  /\ AtBoundary => \A c \in Cores : blocked[c] <=> pendingMiss[c]
  /\ ~AtBoundary => ~pendingMiss[slot] /\ ~blocked[slot]
  /\ last.op \in {"R", "W"} =>
       /\ last.kind # "stalled"
       /\ ~last.preBlocked[last.core]
  /\ \A c \in issuedNow :
       (hasMissed(c) /\ lastMiss[c].cycle < currentCycle) =>
         currentCycle > missResolveTime[c]

\* C13 witness: at the end of a cycle one core is blocked on its pending miss
\* and read nothing in that cycle, while another core read its trace.
C13_Witness ==
  /\ AtBoundary
  /\ \E c \in Cores :
       /\ pendingMiss[c] /\ blocked[c]
       /\ lastMiss[c].cycle < currentCycle
       /\ c \notin issuedNow
       /\ issuedNow # {}

\* All four traces are exhausted and no processor is blocked.
allDone == (\A c \in Cores : fileEnded[c]) /\ (\A c \in Cores : ~blocked[c])

\* C14: with finite traces the cycle loop terminates: every blocked processor
\* is eventually unblocked, every trace is eventually exhausted, and the
\* loop runs another cycle exactly while a trace is not exhausted or a
\* processor is blocked: it stops at the end of the first cycle that leaves
\* all traces exhausted and no processor blocked, and not before.
\* The first conjunct says that from some point on every trace is exhausted
\* and no processor is blocked, for good: that every trace is eventually
\* exhausted (<>fileEnded[c]) and that a blocked processor is eventually
\* unblocked (blocked[c] ~> ~blocked[c]) both follow from it.
C14_Termination ==
  /\ <>[](AtBoundary /\ allDone)
  /\ [][~(AtBoundary /\ allDone)]_vars
  /\ []((AtBoundary /\ ~allDone) => ENABLED Tick)

\* C14 witness: the loop has stopped after every record was serviced, the
\* last of them by a processor that had been blocked on a miss before.
C14_Witness ==
  /\ AtBoundary /\ allDone
  /\ recordsLeft = 0
  /\ \E c \in Cores : hasMissed(c) /\ stats[c].accessCount >= 2
  /\ ~ENABLED Tick

\* f[0] + ... + f[n].
RECURSIVE SumTo(_, _)
SumTo(f, n) == IF n < 0 THEN 0 ELSE f[n] + SumTo(f, n - 1)

\* C15 (as claimed): at termination the instructionsExecuted of the four
\* processors add up to the number of well-formed trace records, a record
\* being well-formed when its opcode is R or W and its address parses as a
\* hexadecimal number.
C15_AsClaimed ==
  (AtBoundary /\ allDone) =>
    SumTo(instructionsExecuted, NumCores - 1) = SumTo(wellFormed, NumCores - 1)

\* The bus transactions of the access just made, in order.
busLog == IF last.op = "none" THEN << >> ELSE last.log

\* Cycles a transaction of type t holds the bus, as the claim lists them.
claimedHold(t) ==
  IF t \in {"BUS_RD", "BUS_RDX"} THEN 2 * (blockSize \div 4)
  ELSE IF t \in {"BUS_UPGR", "INVALIDATE"} THEN 2
  ELSE 100

\* busBusyUntil right after transaction i of busLog: what the next
\* transaction of the same access found, or the variable itself.
busyAfter(i) ==
  IF i < Len(busLog) THEN busLog[i + 1].pre.busBusyUntil ELSE busBusyUntil

\* C16: a transaction issued at cycle c is given the bus from
\* start = max(c, busBusyUntil) and sets busBusyUntil to start + hold, hold
\* being 2 * (blockSize / 4) for BUS_RD and BUS_RDX, 2 for BUS_UPGR and
\* INVALIDATE and 100 for FLUSH; busBusyUntil never decreases, and a
\* reserved interval begins no earlier than the end of every interval
\* reserved before it (the value of busBusyUntil it found, which is the
\* largest of those ends), so intervals never overlap.
C16_BusReservation ==
  /\ [](\A i \in DOMAIN busLog :
          /\ busLog[i].t \in {"BUS_RD", "BUS_RDX", "BUS_UPGR", "INVALIDATE", "FLUSH"}
          /\ busLog[i].start = MaxOf2(last.cycle, busLog[i].pre.busBusyUntil)
          /\ busyAfter(i) = busLog[i].start + claimedHold(busLog[i].t)
          /\ i > 1 => busLog[i].start >=
                        busLog[i - 1].start + claimedHold(busLog[i - 1].t))
  /\ [][busBusyUntil' >= busBusyUntil]_vars
  /\ [][/\ busBusyUntil' # busBusyUntil => busLog' # << >>
        /\ busLog' # << >> => /\ busLog'[1].pre.busBusyUntil = busBusyUntil
                              /\ busLog'[1].start >= busBusyUntil]_vars

\* C16 witness: a miss found the bus still reserved by another core's
\* transaction, so its FLUSH started later than the cycle it was issued in,
\* and its BUS_RD or BUS_RDX after that FLUSH.
C16_Witness ==
  /\ Len(busLog) = 2
  /\ busLog[1].t = "FLUSH"
  /\ busLog[1].start > last.cycle
  /\ busLog[2].start = busLog[1].start + 100
  /\ busBusyUntil = busLog[2].start + 2 * (blockSize \div 4)

\* C16 witness: a BUS_UPGR waited for the bus.
C16_WitnessUpgr ==
  /\ Len(busLog) = 1
  /\ busLog[1].t = "BUS_UPGR"
  /\ busLog[1].start > last.cycle
  /\ busBusyUntil = busLog[1].start + 2

\* busTrafficBytes, invalidationCount and memWriteCount right after
\* transaction i of busLog (its snoops included).
bytesAfter(i) ==
  IF i < Len(busLog) THEN busLog[i + 1].pre.busTrafficBytes ELSE busTrafficBytes

invalidationsAfter(i) ==
  IF i < Len(busLog) THEN busLog[i + 1].pre.invalidationCount ELSE invalidationCount

\* Peers of the requester of transaction e that held a valid line for its
\* block just before it.
peersHolding(e) ==
  { d \in Cores \ {e.req} : blockState(e.pre.lines, d, e.addr) # "I" }

peersModified(e) ==
  { d \in Cores \ {e.req} : blockState(e.pre.lines, d, e.addr) = "M" }

\* C17: every bus transaction adds to busTrafficBytes and invalidationCount
\* by its type alone: BUS_RD blockSize bytes and no invalidation; BUS_RDX
\* blockSize bytes once and as many invalidations as peers held a valid copy
\* of the block just before it; BUS_UPGR no bytes and one invalidation;
\* FLUSH blockSize bytes and no invalidation.  What the snooping peers do
\* (a MODIFIED holder writing the block back included) adds nothing, and the
\* two counters change through bus transactions only.
C17_BusAccounting ==
  /\ [](\A i \in DOMAIN busLog :
          LET e == busLog[i]
              bytes == bytesAfter(i) - e.pre.busTrafficBytes
              invs == invalidationsAfter(i) - e.pre.invalidationCount
          IN  /\ e.t = "BUS_RD" => bytes = blockSize /\ invs = 0
              /\ e.t = "BUS_RDX" =>
                   bytes = blockSize /\ invs = Cardinality(peersHolding(e))
              /\ e.t = "BUS_UPGR" => bytes = 0 /\ invs = 1
              /\ e.t = "FLUSH" => bytes = blockSize /\ invs = 0)
  /\ [][/\ (busTrafficBytes' # busTrafficBytes
             \/ invalidationCount' # invalidationCount) => busLog' # << >>
        /\ busLog' # << >> =>
             /\ busLog'[1].pre.busTrafficBytes = busTrafficBytes
             /\ busLog'[1].pre.invalidationCount = invalidationCount]_vars

\* C17 witness: a BUS_RDX found two peers with a valid copy and counted two
\* invalidations and one block.
C17_Witness ==
  \E i \in DOMAIN busLog :
    /\ busLog[i].t = "BUS_RDX"
    /\ Cardinality(peersHolding(busLog[i])) = 2
    /\ invalidationsAfter(i) = busLog[i].pre.invalidationCount + 2
    /\ bytesAfter(i) = busLog[i].pre.busTrafficBytes + blockSize

\* C17 witness: a BUS_RD made a MODIFIED holder write the block back to
\* memory, and the bus counted the one block of the transfer.
C17_WitnessWriteback ==
  /\ Len(busLog) = 1
  /\ busLog[1].t = "BUS_RD"
  /\ peersModified(busLog[1]) # {}
  /\ memWriteCount = busLog[1].pre.memWriteCount + 1
  /\ busTrafficBytes = busLog[1].pre.busTrafficBytes + blockSize

\* C18: the bus never delays the requester.  The missResolveTime of a miss is
\* its issue cycle, plus 100 if the victim was MODIFIED, plus the fill
\* latency of the data source (2 cycles per word from a peer cache, 100 from
\* memory): busBusyUntil and the start cycle the bus gave to the miss's
\* transactions do not enter it, so a miss issued while the bus is reserved
\* beyond the current cycle resolves when it would on an idle bus.
C18_BusNeverDelays ==
  IsMiss =>
    missResolveTime[last.core] =
      last.cycle
        + (IF last.victimValid /\ last.victimState = "M" THEN 100 ELSE 0)
        + (IF last.dsc >= 0 THEN 2 * (blockSize \div 4) ELSE 100)

\* C18 witness: a miss issued while the bus was reserved beyond the current
\* cycle resolves before its own bus transaction has even started.
C18_Witness ==
  /\ IsMiss
  /\ last.pre.busBusyUntil > last.cycle
  /\ busLog[1].start > last.cycle
  /\ missResolveTime[last.core] < busLog[1].start
  /\ pendingMiss[last.core]

\* The step just taken on the probed set was a miss.
IsSetMiss == probe.last.kind = "miss"

\* The victim by the rule of the claim.
claimedVictim(ls) ==
  LET inv == { w \in DOMAIN ls : ls[w].state = "I" }
      low == { w \in DOMAIN ls : \A v \in DOMAIN ls : ls[w].lru <= ls[v].lru }
  IN  IF inv # {} THEN MinOf(inv) ELSE MinOf(low)

\* C19 (as claimed): a miss in a set without INVALID line evicts the line
\* whose most recent use, its install or its latest hit, is the oldest.
C19_AsClaimed ==
  (IsSetMiss /\ \A w \in DOMAIN probe.last.pre : isValid(probe.last.pre[w])) =>
    \A w \in DOMAIN probe.last.pre :
      probe.last.preUse[probe.last.way] <= probe.last.preUse[w]

\* C20: findVictim returns the lowest-indexed INVALID line if the set has
\* one, and otherwise the lowest-indexed line among those with the minimum
\* lru counter.
C20_FindVictim ==
  IsSetMiss => probe.last.way = claimedVictim(probe.last.pre)

\* C20 witness: in a full set whose first line has been hit, the two other
\* lines tie on the minimum counter and the lower-indexed of them is taken.
C20_Witness ==
  /\ IsSetMiss
  /\ \A w \in DOMAIN probe.last.pre : isValid(probe.last.pre[w])
  /\ probe.last.pre[1].lru > probe.last.pre[2].lru
  /\ probe.last.pre[2].lru = probe.last.pre[3].lru
  /\ probe.last.way = 2

\* C20 witness: lines 2 and 3 are INVALID next to a valid line 1, and line 2
\* is taken.
C20_WitnessInvalid ==
  /\ IsSetMiss
  /\ isValid(probe.last.pre[1])
  /\ ~isValid(probe.last.pre[2]) /\ ~isValid(probe.last.pre[3])
  /\ probe.last.pre[2].lru > probe.last.pre[1].lru
  /\ probe.last.way = 2

\* C21 (as claimed): once updateLRU has run on a set (its lruCounter has
\* left 0), the valid lines of the set have pairwise distinct lru counters.
C21_AsClaimed ==
  probe.ctr > 0 =>
    \A v, w \in DOMAIN probe.ls :
      (v # w /\ isValid(probe.ls[v]) /\ isValid(probe.ls[w])) =>
        probe.ls[v].lru # probe.ls[w].lru

\* The largest lru counter of the lines ls.
MaxOfLru(ls) ==
  CHOOSE x \in { ls[w].lru : w \in DOMAIN ls } : \A w \in DOMAIN ls : ls[w].lru <= x

\* The lru counters of the lines of set s of cache c in ln.
lruOf(ln, c, s) == [w \in DOMAIN ln[c][s] |-> ln[c][s][w].lru]

\* C22: the lru counter of a line and the lruCounter of a set change only in
\* a step in which the owning core itself accesses that set and is served
\* (a hit or a miss with its install); no step changes them in any other
\* cache, whatever the snooped transaction does to the states of its lines.
C22_LruFrame ==
  [][\A c \in Cores, s \in SetIdxs :
       (lruOf(lines', c, s) # lruOf(lines, c, s) \/ setLru'[c][s] # setLru[c][s])
         => /\ last'.op \in {"R", "W"}
            /\ last'.kind \in {"hit", "miss"}
            /\ last'.core = c
            /\ getIndex(last'.addr) = s]_vars

\* C22 witness: a write miss invalidated the line a peer held for the
\* block; the peer's line is INVALID with the lru counter it had, and the
\* lruCounter of its set is unchanged.
C22_Witness ==
  /\ IsWriteMiss
  /\ \E d \in preHolders :
       LET pl == last.pre.lines[d][getIndex(last.addr)]
           nl == lines[d][getIndex(last.addr)]
           w == findLine(pl, getTag(last.addr))
       IN  /\ nl[w].state = "I"
           /\ nl[w].lru = pl[w].lru
           /\ setLru[d][getIndex(last.addr)] = MaxOfLru(pl)

\* C22 witness with a counter that has moved: the line whose state the
\* snoop changed had been hit by its owner before (it takes four records
\* to get there).
C22_WitnessAfterHit ==
  /\ last.op \in {"R", "W"}
  /\ last.log # << >>
  /\ \E d \in preHolders :
       LET pl == last.pre.lines[d][getIndex(last.addr)]
           nl == lines[d][getIndex(last.addr)]
           w == findLine(pl, getTag(last.addr))
       IN  /\ pl[w].lru > 0
           /\ nl[w].state # pl[w].state
           /\ nl[w].lru = pl[w].lru

\* State a peer is left in by the snoop of the miss `last`, from the state
\* st it held the block in: SHARED after a BUS_RD, INVALID after a BUS_RDX.
snoopedTo(st) ==
  IF st = "I" THEN "I" ELSE IF last.op = "R" THEN "S" ELSE "I"

\* The transaction of the miss `last` that asks for the block (the last of
\* its log, after the FLUSH of a MODIFIED victim if there was one).
fillRequest == last.log[Len(last.log)]

\* C23: in the handling of a miss every peer has reacted to the snoop when
\* the requester installs the line, and the miss is still unresolved then.
\* In the world the bus callback hands back to the requester, before the
\* install, each peer already holds the block in the state the transaction
\* leaves it in, a MODIFIED holder's write to main memory has been made, and
\* the requester has no line for the block yet; the install changes nothing
\* but the requester's own lines; and right after the access the miss is
\* pending with a resolve time later than the issue cycle.
C23_SnoopBeforeInstall ==
  IsMiss =>
    /\ blockState(last.snooped.lines, last.core, last.addr) = "I"
    /\ blockState(lines, last.core, last.addr) # "I"
    /\ \A d \in Cores \ {last.core} :
         /\ blockState(last.snooped.lines, d, last.addr)
              = snoopedTo(blockState(fillRequest.pre.lines, d, last.addr))
         /\ last.snooped.lines[d] = lines[d]
    /\ last.snooped.memWriteCount = fillRequest.pre.memWriteCount
         + Cardinality({ d \in Cores \ {last.core} :
                           blockState(fillRequest.pre.lines, d, last.addr) = "M" })
    /\ last.snooped.memWriteCount = memWriteCount
    /\ pendingMiss[last.core]
    /\ missResolveTime[last.core] > last.cycle

\* C23 witness: a read miss on a block a peer held MODIFIED; the peer is
\* SHARED and its write-back is in memory before the reader has the line.
C23_Witness ==
  /\ IsReadMiss
  /\ preModified # {}
  /\ \A d \in preModified : blockState(last.snooped.lines, d, last.addr) = "S"
  /\ last.snooped.memWriteCount = last.pre.memWriteCount + 1
  /\ blockState(last.snooped.lines, last.core, last.addr) = "I"
  /\ blockState(lines, last.core, last.addr) = "S"
  /\ pendingMiss[last.core]

\* C24: on a read miss the source recorded in dataSourceCache is the
\* lowest-numbered peer (the requester left out) that held the block in a
\* valid state, -1 if there is none; the transfer is counted once; and every
\* peer that held the block, the ones after the supplier too, has been
\* snooped: it is SHARED afterwards.
C24_LowestPeerSupplies ==
  IsReadMiss =>
    /\ last.dsc = IF preHolders = {} THEN -1 ELSE MinOf(preHolders)
    /\ dataSourceCache[last.core] = last.dsc
    /\ last.dsc # last.core
    /\ cacheToCache = last.pre.cacheToCache + (IF preHolders = {} THEN 0 ELSE 1)
    /\ \A d \in preHolders : blockState(lines, d, last.addr) = "S"

\* C24 witness: two peers, neither of them core 0, held the block; the
\* lower-numbered is the source and both are SHARED.
C24_Witness ==
  /\ IsReadMiss
  /\ Cardinality(preHolders) = 2
  /\ 0 \notin preHolders
  /\ last.dsc = MinOf(preHolders)
  /\ \A d \in preHolders : blockState(lines, d, last.addr) = "S"

\* C25 (as claimed): a BUS_RD or BUS_RDX that finds a peer holding the block
\* MODIFIED holds the bus for the peer's write-back (100 cycles, like a
\* FLUSH) and then for the block transfer: busBusyUntil becomes
\* start + 100 + 2 * (blockSize / 4).
C25_AsClaimed ==
  \A i \in DOMAIN busLog :
    (busLog[i].t \in {"BUS_RD", "BUS_RDX"} /\ peersModified(busLog[i]) # {}) =>
      busyAfter(i) = busLog[i].start + 100 + 2 * (blockSize \div 4)

\* C26 (as claimed): a core whose trace holds no instruction (its first
\* read, in cycle 1, finds the trace ended) has finish cycle 0, and any
\* other core has as its finish cycle the cycle in which it was first found
\* to have no more instructions.
C26_AsClaimed ==
  AtBoundary =>
    \A c \in Cores :
      finishCycle[c] = IF endedAt[c] = 1 THEN 0 ELSE endedAt[c]

\* What the program records: the finish cycle is the cycle in which the
\* trace was found ended, for an empty trace too (cycle 1).
FinishIsEndCycle == AtBoundary => \A c \in Cores : finishCycle[c] = endedAt[c]

\* The call just made found a miss pending in its cache and returned.
IsStalled == last.op \in {"R", "W"} /\ last.kind = "stalled"

\* C27 (as claimed): Cache::read or Cache::write called while the cache has
\* a miss pending does no work: its counters (accessCount, readCount,
\* writeCount, hitCount, missCount), every line with its lru counter, and
\* the bus state are as before the call.
C27_AsClaimed ==
  IsStalled =>
    /\ stats[last.core] = last.preStats
    /\ lines = last.pre.lines
    /\ busBusyUntil = last.pre.busBusyUntil
    /\ busTrafficBytes = last.pre.busTrafficBytes
    /\ invalidationCount = last.pre.invalidationCount
    /\ pendingMiss[last.core]

\* What the program does on such a call: it counts the access and the read
\* or the write, and nothing else changes.
StalledCallCounted ==
  IsStalled =>
    /\ stats[last.core] =
         [last.preStats EXCEPT
            !.accessCount = @ + 1,
            !.readCount = IF last.op = "R" THEN @ + 1 ELSE @,
            !.writeCount = IF last.op = "W" THEN @ + 1 ELSE @]
    /\ lines = last.pre.lines
    /\ busBusyUntil = last.pre.busBusyUntil
    /\ busTrafficBytes = last.pre.busTrafficBytes
    /\ invalidationCount = last.pre.invalidationCount
    /\ pendingMiss[last.core]

\* The step is an A step and A, taken from the same state, has no other
\* outcome than the one the step has.
OnlyOutcome(A) == A => \E v \in { vars' } : ~ENABLED (A /\ vars' # v)

SkipsRecord(p) == p \notin skipped.now /\ p \in skipped'.now

\* C29: a record with an unknown opcode is skipped.  The step that reads it
\* is the issue slot of that core in the cycle; it makes no cache access,
\* changes no cache, bus or memory counter and no line, leaves the core's
\* instruction and idle counters alone, leaves the core unblocked with no
\* miss pending and its trace not marked as ended; and in the next cycle the
\* core reads its trace again.
C29_UnknownOpcodeSkipped ==
  /\ [][\A p \in Cores : SkipsRecord(p) =>
          /\ phase = "issue" /\ slot = p
          /\ p \in issuedNow'
          /\ currentCycle' = currentCycle
          /\ last' = NoAccess
          /\ UNCHANGED << lines, setLru, stats, dataSourceCache,
                          missResolveTime, busBusyUntil, invalidationCount,
                          busTrafficBytes, cacheToCache, memReadCount,
                          memWriteCount >>
          /\ instructionsExecuted'[p] = instructionsExecuted[p]
          /\ cyclesBlocked'[p] = cyclesBlocked[p]
          /\ ~blocked'[p] /\ ~pendingMiss'[p]
          /\ ~fileEnded'[p]]_vars
  /\ [](\A p \in skipped.now : ~blocked[p] /\ ~fileEnded[p])
  /\ [](\A p \in skipped.prev :
          (AtBoundary \/ slot > p) => p \in issuedNow)

\* C29 witness: a core whose record of the previous cycle had an unknown
\* opcode has executed the following record, a write that missed.
C29_Witness ==
  \E p \in Cores :
    /\ p \in skipped.prev
    /\ IsWriteMiss /\ last.core = p
    /\ instructionsExecuted[p] = 0
    /\ stats[p].accessCount = 1

\* Core p missed with operation op on the block of address a in the current
\* cycle.
missedNow(p, op, a) ==
  /\ lastMiss[p].op = op
  /\ lastMiss[p].cycle = currentCycle
  /\ getBlockAddress(lastMiss[p].addr) = getBlockAddress(a)

\* Latency of the victim write-back of the latest miss of core p.
victimCharge(p) == IF lastMiss[p].victimM THEN WritebackPenalty ELSE 0

\* C30: the accesses of one cycle take effect one after the other in core
\* order 0..3, each with its install.  (a) Every access is made by the core
\* whose slot it is, after the lower cores that read their trace in the
\* cycle.  (b) When cores i < j both read-miss in the same cycle on a block
\* no cache held, i being the first core to touch it and no core writing it
\* in that cycle, then at the end of the cycle core i has been charged the
\* memory latency (no source cache), core j the cache-to-cache latency with
\* core i as its source, and both hold the block in S.  (c) When cores i < j
\* both write-miss on the same block in the same cycle and no higher core
\* touches it, then at the end of the cycle core j holds the block in M and
\* core i's line is INVALID while core i's miss is still pending.
C30_SameCycleInCoreOrder ==
  /\ [][last' # NoAccess =>
          /\ last'.core = slot
          /\ \A q \in issuedNow : q < slot]_vars
  /\ [](AtBoundary =>
          \A a \in Addrs : \A i \in Cores : \A j \in Cores :
            ( /\ i < j
              /\ missedNow(i, "R", a) /\ missedNow(j, "R", a)
              /\ ~lastMiss[i].peerHeld
              /\ \A k \in Cores : ~missedNow(k, "W", a) )
            => /\ missResolveTime[i] = currentCycle + victimCharge(i) + MemLatency
               /\ dataSourceCache[i] = -1
               /\ missResolveTime[j] = currentCycle + victimCharge(j) + transferCycles
               /\ dataSourceCache[j] = i
               /\ blockState(lines, i, a) = "S"
               /\ blockState(lines, j, a) = "S"
               /\ pendingMiss[i] /\ pendingMiss[j])
  /\ [](AtBoundary =>
          \A a \in Addrs : \A i \in Cores : \A j \in Cores :
            ( /\ i < j
              /\ missedNow(i, "W", a) /\ missedNow(j, "W", a)
              /\ \A k \in Cores : k > j =>
                   ~(missedNow(k, "W", a) \/ missedNow(k, "R", a)) )
            => /\ blockState(lines, j, a) = "M"
               /\ blockState(lines, i, a) = "I"
               /\ pendingMiss[i] /\ blocked[i])

\* C30 witness (reads): two cores have read-missed on one uncached block in
\* the same cycle.
C30_Witness ==
  /\ AtBoundary
  /\ \E a \in Addrs : \E i \in Cores : \E j \in Cores :
       /\ i < j
       /\ missedNow(i, "R", a) /\ missedNow(j, "R", a)
       /\ ~lastMiss[i].peerHeld
       /\ \A k \in Cores : ~missedNow(k, "W", a)
       /\ dataSourceCache[j] = i

\* C30 witness (writes): two cores have write-missed on one block in the
\* same cycle and the lower core's line is already INVALID.
C30_WitnessWrites ==
  /\ AtBoundary
  /\ \E a \in Addrs : \E i \in Cores : \E j \in Cores :
       /\ i < j
       /\ missedNow(i, "W", a) /\ missedNow(j, "W", a)
       /\ blockState(lines, i, a) = "I"
       /\ pendingMiss[i]

\* Every line of every set of every cache.
AllLines == { lines[c][s][w] : c \in Cores, s \in SetIdxs, w \in Ways }

\* C31: in every reachable state a line reports isDirty() exactly when its
\* MESI state is M, and the dirty bit itself is never set on a line in E, S
\* or I, whatever installs, write hits, snoop downgrades and invalidations
\* have happened.
C31_DirtyIffModified ==
  \A l \in AllLines :
    /\ isDirty(l) <=> l.state = "M"
    /\ l.dirty => l.state = "M"

\* C31 witness: a read miss has just downgraded a peer's MODIFIED line (dirty
\* bit set by its write) to SHARED, and the bit is clear.
C31_Witness ==
  /\ IsReadMiss
  /\ \E d \in preModified :
       LET ls == lines[d][getIndex(last.addr)]
           w == findLine(ls, getTag(last.addr))
           pw == findLine(last.pre.lines[d][getIndex(last.addr)], getTag(last.addr))
       IN  /\ w # 0 /\ ls[w].state = "S" /\ ~ls[w].dirty
           /\ last.pre.lines[d][getIndex(last.addr)][pw].dirty

\* C31 witness (write hit): a line written on a hit in E is MODIFIED.
C31_WitnessWriteHit ==
  /\ IsWriteHit /\ last.own = "E"
  /\ blockState(lines, last.core, last.addr) = "M"

IsReadHit == last.op = "R" /\ last.kind = "hit"

\* The line v with its lru field blanked.
sansLru(v) == [v EXCEPT !.lru = 0]

\* C32: a read hit (matching line in M, E or S) completes in the cycle of
\* its issue (the core is not blocked, no miss is pending, the instruction
\* is counted), adds 1 to hitCount and moves the line to the most recent LRU
\* position; the MESI state, tag and dirty bit of every line of every cache,
\* busBusyUntil, the traffic and invalidation counters, the cache-to-cache
\* counter and the main-memory read and write counters are unchanged, and no
\* miss, eviction or write-back is counted.
C32_ReadHitFrame ==
  [][(last'.op = "R" /\ last'.kind = "hit") =>
       LET p == last'.core
           idx == getIndex(last'.addr)
           w == findLine(lines[p][idx], getTag(last'.addr))
       IN  /\ p = slot /\ phase = "issue"
           /\ w # 0 /\ lines[p][idx][w].state \in {"M", "E", "S"}
           /\ ~blocked'[p] /\ ~pendingMiss'[p]
           /\ instructionsExecuted'[p] = instructionsExecuted[p] + 1
           /\ cyclesBlocked'[p] = cyclesBlocked[p]
           /\ currentCycle' = currentCycle
           /\ stats'[p] = [stats[p] EXCEPT !.accessCount = @ + 1,
                                           !.readCount = @ + 1,
                                           !.hitCount = @ + 1]
           /\ \A c \in Cores \ {p} : stats'[c] = stats[c]
           /\ \A c \in Cores : \A s \in SetIdxs : \A v \in Ways :
                /\ sansLru(lines'[c][s][v]) = sansLru(lines[c][s][v])
                /\ << c, s, v >> # << p, idx, w >> =>
                     lines'[c][s][v] = lines[c][s][v]
           /\ lines'[p][idx][w].lru = setLru'[p][idx]
           /\ setLru'[p][idx] = setLru[p][idx] + 1
           /\ \A x \in (Cores \X SetIdxs) \ { << p, idx >> } :
                setLru'[x[1]][x[2]] = setLru[x[1]][x[2]]
           /\ UNCHANGED << busBusyUntil, busTrafficBytes, invalidationCount,
                           cacheToCache, memReadCount, memWriteCount,
                           missResolveTime, dataSourceCache >>]_vars

\* C32 witness: a read has hit a line held in S, in a cycle in which the bus
\* is still held by an earlier transaction.
C32_Witness ==
  /\ IsReadHit /\ last.own = "S"
  /\ busBusyUntil > currentCycle
  /\ stats[last.core].hitCount = last.preStats.hitCount + 1

\* The lines of all caches once every peer has snooped transaction tx of
\* busLog (before the requester goes on).
afterSnoop(tx) ==
  snoopLoop(0, tx.t, tx.addr, tx.req,
            [tx.pre EXCEPT !.dataProvided = FALSE, !.sourceCore = -1]).lines

\* The lines of all caches at the next point of the access `last` where they
\* are recorded after transaction i of busLog: before the next transaction,
\* or at the end of the access.
seenAfter(i) == IF i < Len(busLog) THEN busLog[i + 1].pre.lines ELSE lines

\* The line l of set s holds block blk in a non-INVALID state.
holdsBlock(l, s, blk) == isValid(l) /\ victimBlockAddr(l.tag, s) = blk

\* C33: frame of the snoop.  For every bus transaction of an access, on
\* block X by requester r: what the peers hold afterwards is what the snoop
\* left (the requester writes its own lines only); a peer line that does not
\* hold X in a non-INVALID state, in the set of X or in any other set, is
\* unchanged in every field; a FLUSH changes no line of any peer; and no
\* line of r is changed by the snoop of r's own transaction.
C33_SnoopFrame ==
  \A i \in DOMAIN busLog :
    LET tx == busLog[i]
        pre == tx.pre.lines
        post == afterSnoop(tx)
    IN  /\ \A d \in Cores \ {tx.req} : seenAfter(i)[d] = post[d]
        /\ (IsMiss /\ i = Len(busLog)) => last.snooped.lines = post
        /\ \A d \in Cores \ {tx.req} : \A s \in SetIdxs : \A v \in Ways :
             ~holdsBlock(pre[d][s][v], s, tx.addr) => post[d][s][v] = pre[d][s][v]
        /\ tx.t = "FLUSH" => \A d \in Cores \ {tx.req} : post[d] = pre[d]
        /\ post[tx.req] = pre[tx.req]

\* C33 witness: a BUS_RDX on block X has invalidated one peer's copy of X
\* while another peer holds a different block in the same set, untouched.
C33_Witness ==
  /\ IsWriteMiss
  /\ LET tx == fillRequest
         s == getIndex(last.addr)
     IN  /\ tx.t = "BUS_RDX"
         /\ \E d \in Cores \ {tx.req} : \E e \in Cores \ {tx.req, d} :
              /\ holdsBlock(tx.pre.lines[d][s][1], s, tx.addr)
              /\ ~isValid(lines[d][s][1])
              /\ isValid(tx.pre.lines[e][s][1])
              /\ ~holdsBlock(tx.pre.lines[e][s][1], s, tx.addr)
              /\ lines[e][s][1] = tx.pre.lines[e][s][1]

\* C33 witness (FLUSH): the write-back of a MODIFIED victim has been snooped
\* while a peer holds a valid line in the victim's set.
C33_WitnessFlush ==
  /\ IsMiss /\ Len(busLog) = 2 /\ busLog[1].t = "FLUSH"
  /\ \E d \in Cores \ {last.core} :
       isValid(busLog[1].pre.lines[d][getIndex(last.addr)][1])

\* C33 witness (own transaction): a BUS_UPGR has gone out for a line the
\* requester holds in SHARED.
C33_WitnessUpgrade ==
  /\ IsWriteHit /\ Len(busLog) = 1 /\ busLog[1].t = "BUS_UPGR"
  /\ blockState(busLog[1].pre.lines, last.core, last.addr) = "S"

\* The step is a hit in the set of WrapSpec at which the counter reaches its
\* greatest value.
WrapsNow ==
  /\ probe'.step = probe.step + 1
  /\ probe'.last.kind = "hit"
  /\ probe.ctr + 1 = LruMax

\* In the set ls, findVictim takes line u before line v when both are valid:
\* lower counter first, lower way first among equal counters.
replacedBefore(ls, u, v) ==
  ls[u].lru < ls[v].lru \/ (ls[u].lru = ls[v].lru /\ u < v)

\* What updateLRU does for certain when the counter reaches its greatest
\* value: the valid lines other than the accessed one get distinct numbers of
\* 0..k-1 in ascending order of their counters, the set counter becomes k,
\* the accessed line gets k and is strictly the most recent, and INVALID
\* lines keep their counter.
RenumberedByLru ==
  [][WrapsNow =>
       LET w == probe'.last.way
           valid == { v \in 1 .. SetWays : isValid(probe.ls[v]) }
           others == valid \ {w}
           k == Cardinality(valid)
       IN  /\ w \in valid
           /\ probe'.ctr = k
           /\ probe'.ls[w].lru = k
           /\ \A v \in others : probe'.ls[v].lru \in 0 .. (k - 1)
           /\ \A u \in others : \A v \in others :
                /\ u # v => probe'.ls[u].lru # probe'.ls[v].lru
                /\ probe.ls[u].lru < probe.ls[v].lru =>
                     probe'.ls[u].lru < probe'.ls[v].lru
           /\ \A v \in others : probe'.ls[v].lru < probe'.ls[w].lru
           /\ \A v \in (1 .. SetWays) \ valid : probe'.ls[v] = probe.ls[v]]_vars

WrapReached ==
  /\ probe.last.kind = "hit"
  /\ \E v \in (1 .. SetWays) \ {probe.last.way} :
       /\ isValid(probe.ls[v])
       /\ probe.ls[v].lru # probe.last.pre[v].lru
       /\ probe.ls[v].lru < probe.ls[probe.last.way].lru

\* No two non-INVALID lines of the set ls have the same tag.
tagsDistinct(ls) ==
  \A u \in DOMAIN ls : \A v \in DOMAIN ls :
    (u # v /\ isValid(ls[u]) /\ isValid(ls[v])) => ls[u].tag # ls[v].tag

\* C35: in every reachable state no two non-INVALID lines of one set of one
\* cache have the same tag: a block is installed only when findLine found
\* no valid line for it, also when an INVALID line of the set still carries
\* the tag.  Stated for the 3-way set and for every set of the four caches.
C35_OneLinePerBlock ==
  /\ tagsDistinct(probe.ls)
  /\ \A c \in Cores : \A s \in SetIdxs : tagsDistinct(lines[c][s])

\* C35 witness: a block has just been installed into a way of the 3-way set
\* while another way holds an INVALID line with the same tag, left by a
\* snoop, and a third block is valid in the set.
C35_Witness ==
  /\ probe.last.kind = "miss"
  /\ \E u \in 1 .. SetWays : \E v \in 1 .. SetWays :
       /\ u = probe.last.way /\ v # u
       /\ isValid(probe.ls[u]) /\ ~isValid(probe.ls[v])
       /\ probe.ls[u].tag = probe.ls[v].tag
       /\ probe.ls[u].tag # 0

missCounts == [c \in Cores |-> stats[c].missCount]
writebackCounts == [c \in Cores |-> stats[c].writebackCount]

\* C36: at every cycle boundary busTrafficBytes = blockSize * (sum of the
\* four missCounts + sum of the four writebackCounts): each miss puts one
\* block on the bus (its BUS_RD or BUS_RDX), each write-back of a MODIFIED
\* victim one more (its FLUSH), and upgrades, hits and snooped copies add
\* nothing.
C36_TrafficIsMissesPlusWritebacks ==
  AtBoundary =>
    busTrafficBytes = blockSize * (SumTo(missCounts, NumCores - 1)
                                     + SumTo(writebackCounts, NumCores - 1))

\* C36 witness: at a cycle boundary a miss has written back a MODIFIED
\* victim, and the bus has carried three blocks (two misses and the FLUSH).
C36_Witness ==
  /\ AtBoundary
  /\ SumTo(writebackCounts, NumCores - 1) = 1
  /\ SumTo(missCounts, NumCores - 1) = 2
  /\ busTrafficBytes = 3 * blockSize

\* C36 witness (upgrade): at a cycle boundary the last access of the cycle
\* is a write hit on a SHARED line that has sent its BUS_UPGR.
C36_WitnessUpgrade ==
  /\ AtBoundary
  /\ IsWriteHit /\ Len(busLog) = 1
  /\ busTrafficBytes > 0

\* C37: under the simulator, at every cycle boundary and for every cache,
\* accessCount = hitCount + missCount = readCount + writeCount: each record
\* issued is one hit or one miss, and one read or one write.
C37_AccessesClassified ==
  AtBoundary =>
    \A c \in Cores :
      /\ stats[c].accessCount = stats[c].hitCount + stats[c].missCount
      /\ stats[c].accessCount = stats[c].readCount + stats[c].writeCount

\* C37 witness: at a cycle boundary one cache has counted a read, a write, a
\* hit and a miss with a victim written back.
C37_Witness ==
  /\ AtBoundary
  /\ \E c \in Cores :
       /\ stats[c].readCount > 0 /\ stats[c].writeCount > 0
       /\ stats[c].hitCount > 0 /\ stats[c].missCount > 0
       /\ stats[c].writebackCount > 0

\* C38: at termination the idle-cycle count of each core is the sum over
\* its misses of (missResolveTime - cycle of the miss): the cycle of the
\* miss is not idle, each later cycle up to and including the one that
\* resolves it is, and hits and skipped records add none.  The same holds
\* at every cycle boundary for a core with no miss pending.
C38_IdleIsSumOfMissLatencies ==
  /\ (AtBoundary /\ allDone) => \A c \in Cores : cyclesBlocked[c] = stallOwed[c]
  /\ AtBoundary => \A c \in Cores : ~pendingMiss[c] => cyclesBlocked[c] = stallOwed[c]

\* C38 witness: a run has terminated in which one core had two misses and a
\* hit.
C38_Witness ==
  /\ AtBoundary /\ allDone
  /\ \E c \in Cores :
       /\ stats[c].missCount = 2 /\ stats[c].hitCount = 1
       /\ cyclesBlocked[c] > MemLatency

\* C38 witness (skipped record): a run of three records has terminated with
\* two cache accesses, one of them a miss.
C38_WitnessSkip ==
  /\ AtBoundary /\ allDone
  /\ recordsLeft = 0
  /\ SumTo([c \in Cores |-> stats[c].accessCount], NumCores - 1) = 2
  /\ \E c \in Cores : stats[c].missCount = 1 /\ stats[c].accessCount = 1 /\ cyclesBlocked[c] > 0

\* Greatest finish cycle of the four cores.
maxFinishCycle == CHOOSE m \in { finishCycle[c] : c \in Cores } :
                    \A c \in Cores : finishCycle[c] <= m

\* C39: the cycle in which the simulation terminates is the greatest finish
\* cycle of the four cores, and no core is blocked in the cycle in which
\* the last trace is found exhausted: a trace is found exhausted only by an
\* issue attempt of an unblocked core with no miss pending, so the loop
\* ends with that very cycle.
C39_TerminatesAtLastFinish ==
  /\ []((AtBoundary /\ allDone) =>
          /\ currentCycle = maxFinishCycle
          /\ \E c \in Cores : endedAt[c] = currentCycle)
  /\ []((\A c \in Cores : fileEnded[c]) => \A c \in Cores : ~blocked[c])
  /\ [][\A c \in Cores : (fileEnded'[c] /\ ~fileEnded[c]) =>
          /\ phase = "issue" /\ slot = c
          /\ ~blocked[c] /\ ~pendingMiss[c]
          /\ \A d \in Cores : hasMissed(d) /\ fileEnded'[d] =>
               missResolveTime[d] < currentCycle]_vars

\* C39 witness: a run has terminated in which the cores finished in
\* different cycles, the last one after a miss.
C39_Witness ==
  /\ AtBoundary /\ allDone
  /\ \E c \in Cores : \E d \in Cores :
       /\ finishCycle[c] = currentCycle
       /\ stats[c].missCount > 0
       /\ 1 < finishCycle[d] /\ finishCycle[d] < finishCycle[c]

====
